---------------------------- MODULE Spec2Model ----------------------------
(***************************************************************************)
(* A model of "They Voted For This": the deterministic tick engine         *)
(* (shared/core-engine.ts), the advisor registry                           *)
(* (cloudflare-workers/src/ai-integration.ts) and the GameServer Durable   *)
(* Object that owns one game (cloudflare-workers/src/game-server.ts).      *)
(*                                                                         *)
(* Numbers.  A JavaScript number that a formula or a modifier reads or     *)
(* writes (the leaves of meta, economy, society and government, the        *)
(* players' statistics, the votes of a law, tick numbers and durations)    *)
(* is held as a fixed-point integer, Scale times its value (1000.0 is      *)
(* 1000000); products and quotients are rounded down to 1/Scale.  Counts   *)
(* (employees, severities, array lengths) are plain integers.              *)
(*                                                                         *)
(* Scheduling.  A Durable Object runs one JavaScript turn at a time.  A    *)
(* handler runs without interruption from one await to the next; at an     *)
(* await on something other than storage (request.json(), an advisor's     *)
(* HTTPS call) another event of the same object may be delivered.  While   *)
(* a storage operation is awaited no other event is delivered.             *)
(***************************************************************************)
EXTENDS Integers, Sequences, FiniteSets, TLC

VARIABLES
    worldState,      \* GameServer.worldState: the in-memory world, or Null
    playerTokens,    \* GameServer.playerTokens: player id -> token
    initialized,     \* GameServer.initialized
    storage,         \* durable storage: [worldState, playerTokens]
    triggerCooldowns,\* core-engine module-level Map: event_type -> last tick
    tickRun,         \* the processTick call in flight (its locals), or idle
    requests,        \* handleAction calls suspended at await request.json()
    response,        \* the HTTP response this step returned, if any
    saving,          \* a saveState() in progress: which put comes next
    alarmTime,       \* the instant the alarm is set for, or NoTick
    clock,           \* wall clock (Date.now()), in fixed-point hours
    tickCalls,       \* history variable: processTick calls begun so far
    preTick,         \* history variable: worldState when the last tick began
    preEvents,       \* history variable: the world as processEvents last
                     \* found it
    lastOutcome,     \* history variable: how the last processTick call ended
    otherWorld       \* the world of a second game that the same process
                     \* hosts, or Null

vars == <<worldState, playerTokens, initialized, storage, triggerCooldowns,
          tickRun, requests, response, saving, alarmTime, clock, tickCalls,
          preTick, preEvents, lastOutcome, otherWorld>>

-----------------------------------------------------------------------------
(* Fixed-point arithmetic *)

Scale == 10 * 10 * 10

\* n as a fixed-point number
Fx(n) == n * Scale

\* floor(x * n / d) without forming x * n
Frac(x, n, d) == (x \div d) * n + ((x % d) * n) \div d

\* the product of two fixed-point numbers
MulFx(a, b) == Frac(a, b, Scale)

\* the quotient a / b of two fixed-point numbers, b > 0, by long division
DivFx(a, b) ==
    LET q0 == a \div b
        r0 == a % b
        q1 == (r0 * 10) \div b
        r1 == (r0 * 10) % b
        q2 == (r1 * 10) \div b
        r2 == (r1 * 10) % b
        q3 == (r2 * 10) \div b
    IN  q0 * Scale + q1 * 100 + q2 * 10 + q3

Max(a, b) == IF a >= b THEN a ELSE b
Min(a, b) == IF a <= b THEN a ELSE b

\* Number.POSITIVE_INFINITY: what JSON.parse gives for 1e999
Infinity == 2 * 10^9
IsFinite(v) == v < Infinity /\ v > -Infinity

\* NaN, which is neither infinity and fails Number.isFinite as they do
NotANumber == Infinity + 1

\* null where a player id or a string is expected; where a WorldState is
\* expected; where a law, movement or event id is expected; where a tick
\* number is expected
Null == "null"
NoWorld == [phase |-> "null"]
NoId == <<>>
NoTick == -1

-----------------------------------------------------------------------------
(* HARD CONSTRAINTS *)

HARD_CONSTRAINTS ==
    [p \in {"economy.gdp", "economy.inflation", "economy.unemployment",
            "economy.tax_rate", "economy.tax_compliance",
            "economy.market.supply", "economy.market.demand",
            "economy.market.price_index", "economy.wage_index",
            "economy.budget.reserves", "society.stability",
            "society.public_trust", "society.satisfaction",
            "society.radicalization", "society.protest_pressure",
            "government.approval.overall", "government.approval.citizens",
            "government.approval.business", "government.approval.elite"} |->
        CASE p = "economy.gdp" -> [min |-> 0, max |-> Fx(100000)]
          [] p = "economy.inflation" -> [min |-> Fx(-20), max |-> Fx(500)]
          [] p = "economy.tax_compliance" -> [min |-> 0, max |-> Fx(1)]
          [] p \in {"economy.market.supply", "economy.market.demand"} ->
                [min |-> 0, max |-> Fx(100000)]
          [] p = "economy.market.price_index" -> [min |-> 10, max |-> Fx(1000)]
          [] p = "economy.wage_index" -> [min |-> 10, max |-> Fx(100)]
          [] p = "economy.budget.reserves" ->
                [min |-> Fx(-10000), max |-> Fx(100000)]
          [] p = "society.protest_pressure" -> [min |-> 0, max |-> Fx(1)]
          [] OTHER -> [min |-> 0, max |-> Fx(100)]]

-----------------------------------------------------------------------------
(* UTILITY FUNCTIONS *)

\* the dot-paths to the votes of the first law in state.laws
LawVotePaths ==
    [p \in {"laws.0.votes.for", "laws.0.votes.against",
            "laws.0.votes.abstain"} |->
        CASE p = "laws.0.votes.for" -> "for"
          [] p = "laws.0.votes.against" -> "against"
          [] OTHER -> "abstain"]

\* getByPath: the number at a dot-path, or undefined.  state.num holds the
\* numeric leaves of meta, economy, society and government by their path;
\* of the numeric leaves below the arrays of the state, the votes of the
\* first law, the strength of the first movement and the tick of the first
\* tick_log entry are reached.
getByPath(state, path) ==
    IF path \in DOMAIN state.num
    THEN [defined |-> TRUE, value |-> state.num[path]]
    ELSE IF path \in DOMAIN LawVotePaths /\ Len(state.laws) > 0
    THEN [defined |-> TRUE, value |-> state.laws[1].votes[LawVotePaths[path]]]
    ELSE IF path = "movements.0.strength" /\ Len(state.movements) > 0
    THEN [defined |-> TRUE, value |-> state.movements[1].strength]
    ELSE IF path = "tick_log.0.tick" /\ Len(state.tick_log) > 0
    THEN [defined |-> TRUE, value |-> state.tick_log[1].tick]
    ELSE [defined |-> FALSE, value |-> 0]

\* setByPath: writes an existing leaf; the state after it
setByPath(state, path, value) ==
    IF path \in DOMAIN state.num
    THEN [state EXCEPT !.num[path] = value]
    ELSE IF path \in DOMAIN LawVotePaths /\ Len(state.laws) > 0
    THEN [state EXCEPT !.laws[1].votes[LawVotePaths[path]] = value]
    ELSE IF path = "movements.0.strength" /\ Len(state.movements) > 0
    THEN [state EXCEPT !.movements[1].strength = value]
    ELSE IF path = "tick_log.0.tick" /\ Len(state.tick_log) > 0
    THEN [state EXCEPT !.tick_log[1].tick = value]
    ELSE state

clampToConstraintsNone(path, value) == value

clampToConstraints(path, value) ==
    IF path \notin DOMAIN HARD_CONSTRAINTS \/ value = NotANumber THEN value
    ELSE Max(HARD_CONSTRAINTS[path].min, Min(HARD_CONSTRAINTS[path].max, value))

\* seededUUID: SHA-256 of "uuid-<seed>-<counter>", taken as collision free
seededUUID(seed, counter) == <<"uuid", seed, counter>>

\* hashState: SHA-256 of JSON.stringify(state), taken as collision free
hashState(state) == state

-----------------------------------------------------------------------------
(* MODIFIER APPLICATION *)

\* A Modifier as it arrives in an advisor's JSON.  js = "null" is the JSON
\* value null standing where a modifier object is expected; a missing min
\* or max is held as -Infinity or Infinity (mod.min ?? -Infinity).
Mod(variable, operation, value) ==
    [js |-> "object", variable |-> variable, operation |-> operation,
     value |-> value, min |-> -Infinity, max |-> Infinity]

ClampMod(variable, lo, hi) ==
    [js |-> "object", variable |-> variable, operation |-> "clamp",
     value |-> 0, min |-> lo, max |-> hi]

NullMod ==
    [js |-> "null", variable |-> "", operation |-> "", value |-> 0,
     min |-> -Infinity, max |-> Infinity]

\* the sum and the product of two JavaScript numbers either of which may
\* be an infinity or NaN (Infinity - Infinity and 0 * Infinity are NaN)
JsAdd(a, b) == IF IsFinite(a) /\ IsFinite(b) THEN a + b
               ELSE IF a = NotANumber \/ b = NotANumber THEN NotANumber
               ELSE IF IsFinite(a) THEN b
               ELSE IF IsFinite(b) \/ a = b THEN a
               ELSE NotANumber
JsMul(a, b) == IF IsFinite(a) /\ IsFinite(b) THEN MulFx(a, b)
               ELSE IF a = NotANumber \/ b = NotANumber \/ a = 0 \/ b = 0
               THEN NotANumber
               ELSE IF (a < 0) = (b < 0) THEN Infinity ELSE -Infinity

\* applyModifier: the ModifierResult, with the state after the call and
\* whether the call threw (reading mod.variable of null is a TypeError)
applyModifier(state, mod) ==
    LET old == getByPath(state, mod.variable)
        oldValue == old.value
        known == mod.operation \in {"set", "add", "multiply", "clamp"}
        newValue ==
            CASE mod.operation = "set" -> mod.value
              [] mod.operation = "add" -> JsAdd(oldValue, mod.value)
              [] mod.operation = "multiply" -> JsMul(oldValue, mod.value)
              [] mod.operation = "clamp" ->
                    Max(mod.min, Min(mod.max, oldValue))
              [] OTHER -> oldValue
        clamped == clampToConstraints(mod.variable, newValue)
    IN  IF mod.js = "null"
        THEN [applied |-> FALSE, threw |-> TRUE, variable |-> "",
              old_value |-> 0, new_value |-> 0, state |-> state]
        ELSE IF ~old.defined
        THEN [applied |-> FALSE, threw |-> FALSE, variable |-> mod.variable,
              old_value |-> 0, new_value |-> 0, state |-> state]
        ELSE IF ~known \/ ~IsFinite(clamped)
        THEN [applied |-> FALSE, threw |-> FALSE, variable |-> mod.variable,
              old_value |-> oldValue, new_value |-> oldValue, state |-> state]
        ELSE [applied |-> TRUE, threw |-> FALSE, variable |-> mod.variable,
              old_value |-> oldValue, new_value |-> clamped,
              state |-> setByPath(state, mod.variable, clamped)]

\* applyModifiers: every modifier in order, rejected ones included; the
\* results, the state after the loop and whether applyModifier threw (the
\* loop then ends with the earlier writes in place)
RECURSIVE applyModifiersFrom(_, _, _, _)
applyModifiersFrom(state, modifiers, i, results) ==
    IF i > Len(modifiers)
    THEN [results |-> results, state |-> state, threw |-> FALSE]
    ELSE LET r == applyModifier(state, modifiers[i])
         IN  IF r.threw
             THEN [results |-> results, state |-> state, threw |-> TRUE]
             ELSE applyModifiersFrom(r.state, modifiers, i + 1,
                                     Append(results, r))

applyModifiers(state, modifiers) ==
    applyModifiersFrom(state, modifiers, 1, <<>>)

\* the rollback loop of processEvents and of the judiciary stage:
\*   for (const r of results) if (r.applied) setByPath(state, r.variable, r.old_value)
RECURSIVE rollbackFrom(_, _, _)
rollbackFrom(state, results, i) ==
    IF i > Len(results) THEN state
    ELSE rollbackFrom(IF results[i].applied
                      THEN setByPath(state, results[i].variable,
                                     results[i].old_value)
                      ELSE state,
                      results, i + 1)

rollback(state, results) == rollbackFrom(state, results, 1)

AnyRejected(results) == \E i \in 1..Len(results) : ~results[i].applied

-----------------------------------------------------------------------------
(* INITIAL STATE TEMPLATE (game-server.ts) *)

\* createInitialState: the numeric leaves by dot-path, then the rest.
\* Instants are fixed-point hours; meta.created_at is the instant that
\* tick_deadline is computed from and is left out.
createInitialState(tickIntervalHours, now) ==
    [num |->
        [p \in {"meta.tick", "meta.tick_interval_hours", "meta.seed",
                "economy.gdp", "economy.gdp_delta", "economy.inflation",
                "economy.unemployment", "economy.tax_rate",
                "economy.tax_compliance", "economy.budget.revenue",
                "economy.budget.spending", "economy.budget.reserves",
                "economy.budget.deficit", "economy.market.supply",
                "economy.market.demand", "economy.market.price_index",
                "economy.wage_index", "society.stability",
                "society.public_trust", "society.satisfaction",
                "society.radicalization", "society.protest_pressure",
                "government.approval.overall", "government.approval.citizens",
                "government.approval.business", "government.approval.elite",
                "government.budget_allocation.welfare",
                "government.budget_allocation.infrastructure",
                "government.budget_allocation.enforcement",
                "government.budget_allocation.education",
                "government.budget_allocation.discretionary",
                "government.active_law_count"} |->
            CASE p = "meta.tick" -> 0
              [] p = "meta.tick_interval_hours" -> Fx(tickIntervalHours)
              [] p = "meta.seed" -> Fx(42)
              [] p = "economy.gdp" -> Fx(1000)
              [] p = "economy.gdp_delta" -> 0
              [] p = "economy.inflation" -> Fx(2)
              [] p = "economy.unemployment" -> Fx(5)
              [] p = "economy.tax_rate" -> Fx(20)
              [] p = "economy.tax_compliance" -> 800
              [] p = "economy.budget.revenue" -> Fx(160)
              [] p = "economy.budget.spending" -> Fx(150)
              [] p = "economy.budget.reserves" -> Fx(500)
              [] p = "economy.budget.deficit" -> Fx(-10)
              [] p = "economy.market.supply" -> Fx(100)
              [] p = "economy.market.demand" -> Fx(95)
              [] p = "economy.market.price_index" -> Fx(1)
              [] p = "economy.wage_index" -> Fx(1)
              [] p = "society.stability" -> Fx(65)
              [] p = "society.public_trust" -> Fx(50)
              [] p = "society.satisfaction" -> Fx(50)
              [] p = "society.radicalization" -> Fx(10)
              [] p = "society.protest_pressure" -> 100
              [] p = "government.approval.overall" -> Fx(45)
              [] p = "government.approval.citizens" -> Fx(45)
              [] p = "government.approval.business" -> Fx(50)
              [] p = "government.approval.elite" -> Fx(55)
              [] p = "government.budget_allocation.welfare" -> 300
              [] p = "government.budget_allocation.infrastructure" -> 250
              [] p = "government.budget_allocation.enforcement" -> 200
              [] p = "government.budget_allocation.education" -> 150
              [] p = "government.budget_allocation.discretionary" -> 100
              [] OTHER -> 0],
     phase |-> "accepting_actions",
     tick_deadline |-> now + Fx(tickIntervalHours),
     shortage |-> FALSE,
     movements |-> <<>>,
     players |-> <<>>,
     laws |-> <<>>,
     events |-> <<>>,
     tick_log |-> <<>>,
     media_state |->
        [headlines |-> <<[id |-> <<"h", 1>>, tick |-> 0, text |-> "initial-1"],
                         [id |-> <<"h", 2>>, tick |-> 0, text |-> "initial-2"],
                         [id |-> <<"h", 3>>, tick |-> 0, text |-> "initial-3"]>>,
         rumors |-> <<[id |-> <<"r", 1>>, tick |-> 0, text |-> "initial-1"]>>],
     history |->
        [eras |-> <<[name |-> "The Founding", tick_start |-> 0,
                     tick_end |-> NoTick]>>,
         player_reputations |-> [k \in {} |-> ""]]]

\* getDefaultRoleData
getDefaultRoleData(role) ==
    CASE role = "citizen" ->
            [citizen |-> [employer_id |-> Null, satisfaction |-> Fx(50),
                          economic_pressure |-> Fx(30),
                          radicalization |-> Fx(5),
                          voted_this_tick |-> FALSE]]
      [] role = "business_owner" ->
            [business_owner |->
                [production_capacity |-> Fx(10), wage_level |-> Fx(1),
                 employees |-> 5, tax_evasion |-> 0, lobby_target |-> Null,
                 strike_risk |-> 100, lobby_money_received |-> 0]]
      [] OTHER ->
            [politician |-> [laws_proposed |-> 0, laws_passed |-> 0,
                             public_statements |-> <<>>,
                             lobby_money_received |-> 0]]

\* addPlayerToState: state.players keeps the insertion order of the
\* JavaScript object; a record is found by its id
addPlayerToState(state, playerId, role) ==
    [state EXCEPT !.players = Append(@,
        [id |-> playerId, role |-> role,
         joined_tick |-> state.num["meta.tick"], alive |-> TRUE,
         hidden_stats |-> [influence |-> Fx(5), reputation |-> 0, fear |-> 0,
                           corruption |-> 0, historical_legacy |-> 0],
         visible_stats |-> [wealth |-> Fx(100), movement_id |-> NoId],
         role_data |-> getDefaultRoleData(role),
         actions_pending |-> <<>>,
         actions_history |-> <<>>])]

\* the index in state.players of the player with this id, 0 when there is none
PlayerIndex(state, playerId) ==
    IF \E i \in 1..Len(state.players) : state.players[i].id = playerId
    THEN CHOOSE i \in 1..Len(state.players) : state.players[i].id = playerId
    ELSE 0

-----------------------------------------------------------------------------
(* ACTION PROCESSORS *)

\* action.params with every parameter absent.  An absent wage_level is no
\* number (NotANumber), an absent amount is undefined (lobby reads it with
\* ?? 10), an absent allocation is the empty mapping.
NoAllocation == [k \in {} |-> 0]
NoParams ==
    [law_id |-> NoId, vote |-> Null, movement_id |-> NoId,
     wage_level |-> NotANumber, politician_id |-> Null,
     amount |-> NotANumber, text |-> "", allocation |-> NoAllocation]

AllocationKeys ==
    <<"welfare", "infrastructure", "enforcement", "education", "discretionary">>
AllocationPath ==
    [k \in {"welfare", "infrastructure", "enforcement", "education",
            "discretionary"} |->
        CASE k = "welfare" -> "government.budget_allocation.welfare"
          [] k = "infrastructure" ->
                "government.budget_allocation.infrastructure"
          [] k = "enforcement" -> "government.budget_allocation.enforcement"
          [] k = "education" -> "government.budget_allocation.education"
          [] OTHER -> "government.budget_allocation.discretionary"]

\* state.laws.find(l => l.id === lawId && l.status === "voting"): its index
FindVotingLaw(state, lawId) ==
    LET hits == {k \in 1..Len(state.laws) :
                    state.laws[k].id = lawId /\ state.laws[k].status = "voting"}
    IN  IF hits = {} THEN 0 ELSE CHOOSE k \in hits : \A m \in hits : k <= m

\* state.society.movements.find(m => m.id === movementId): its index
FindMovement(state, movementId) ==
    LET hits == {k \in 1..Len(state.movements) :
                    state.movements[k].id = movementId}
    IN  IF hits = {} THEN 0 ELSE CHOOSE k \in hits : \A m \in hits : k <= m

work(state, i, action) ==
    LET player == state.players[i]
        rd == player.role_data.citizen
        e == PlayerIndex(state, rd.employer_id)
        wage_level ==
            IF e # 0 /\ state.players[e].role = "business_owner"
            THEN state.players[e].role_data.business_owner.wage_level
            ELSE Fx(1)
        wage == MulFx(state.num["economy.wage_index"], wage_level)
    IN  IF player.role # "citizen" THEN state
        ELSE IF rd.employer_id = Null
        THEN [state EXCEPT !.players[i].role_data.citizen.economic_pressure =
                                Min(Fx(100), @ + Fx(5))]
        ELSE [state EXCEPT
                !.players[i].visible_stats.wealth = @ + wage,
                !.players[i].role_data.citizen.satisfaction =
                    Min(Fx(100), @ + Fx(1)),
                !.num["economy.gdp"] = @ + Frac(wage, 1, 100)]

consume(state, i, action) ==
    LET player == state.players[i]
        amount == Min(Frac(player.visible_stats.wealth, 3, 10),
                      Frac(state.num["economy.market.supply"], 1, 100))
    IN  IF player.role # "citizen" THEN state
        ELSE IF amount <= 0
        THEN [state EXCEPT !.players[i].role_data.citizen.economic_pressure =
                                Min(Fx(100), @ + Fx(8))]
        ELSE [state EXCEPT
                !.players[i].visible_stats.wealth = @ - amount,
                !.num["economy.market.demand"] = @ + Frac(amount, 1, 10),
                !.num["economy.market.supply"] = @ - Frac(amount, 5, 100),
                !.players[i].role_data.citizen.satisfaction =
                    Min(Fx(100), @ + Fx(3))]

\* the tally of a law after one vote of the given weight
Tally(votes, vote, weight) ==
    IF vote = "for" THEN [votes EXCEPT !.for = @ + weight]
    ELSE IF vote = "against" THEN [votes EXCEPT !.against = @ + weight]
    ELSE [votes EXCEPT !.abstain = @ + weight]

\* vote_law with the citizen's vote recorded but not tallied
vote_lawUntallied(state, i, action) ==
    LET player == state.players[i]
        k == FindVotingLaw(state, action.params.law_id)
    IN  IF player.role # "citizen" THEN state
        ELSE IF action.params.law_id = NoId \/ action.params.vote = Null
        THEN state
        ELSE IF k = 0 THEN state
        ELSE [state EXCEPT
                !.players[i].role_data.citizen.voted_this_tick = TRUE,
                !.players[i].hidden_stats.influence = Min(Fx(100), @ + 500)]

vote_law(state, i, action) ==
    LET player == state.players[i]
        k == FindVotingLaw(state, action.params.law_id)
    IN  IF player.role # "citizen" THEN state
        ELSE IF action.params.law_id = NoId \/ action.params.vote = Null
        THEN state
        ELSE IF k = 0 THEN state
        ELSE [state EXCEPT
                !.laws[k].votes = Tally(@, action.params.vote, Fx(1)),
                !.players[i].role_data.citizen.voted_this_tick = TRUE,
                !.players[i].hidden_stats.influence = Min(Fx(100), @ + 500)]

join_movement(state, i, action) ==
    LET player == state.players[i]
        movementId == action.params.movement_id
        k == FindMovement(state, movementId)
        members == state.movements[k].member_player_ids
        radical == state.movements[k].type = "radical"
    IN  IF player.role # "citizen" THEN state
        ELSE IF movementId = NoId \/ k = 0 THEN state
        ELSE [state EXCEPT
                !.movements[k].member_player_ids =
                    IF \E m \in 1..Len(members) : members[m] = player.id
                    THEN @ ELSE Append(@, player.id),
                !.players[i].visible_stats.movement_id = movementId,
                !.players[i].role_data.citizen.radicalization =
                    IF radical THEN Min(Fx(100), @ + Fx(10)) ELSE @,
                !.players[i].hidden_stats.influence = Min(Fx(100), @ + Fx(2))]

leave_movement(state, i, action) ==
    LET player == state.players[i]
        movementId == player.visible_stats.movement_id
        k == FindMovement(state, movementId)
        left == [state EXCEPT !.players[i].visible_stats.movement_id = NoId]
    IN  IF player.role # "citizen" THEN state
        ELSE IF movementId = NoId THEN state
        ELSE IF k = 0 THEN left
        ELSE [left EXCEPT !.movements[k].member_player_ids =
                            SelectSeq(@, LAMBDA id : id # player.id)]

produce(state, i, action) ==
    LET player == state.players[i]
        rd == player.role_data.business_owner
        output == IF rd.strike_risk > 800
                  THEN Frac(rd.production_capacity, 1, 2)
                  ELSE rd.production_capacity
        revenue == MulFx(output, state.num["economy.market.price_index"])
        costs == MulFx(rd.employees * rd.wage_level,
                       state.num["economy.wage_index"])
        profit == revenue - costs
    IN  IF player.role # "business_owner" THEN state
        ELSE [state EXCEPT
                !.players[i].role_data.business_owner.production_capacity =
                    output,
                !.num["economy.market.supply"] = @ + output,
                !.num["economy.gdp"] = @ + Frac(output, 1, 10),
                !.players[i].visible_stats.wealth = @ + Max(0, profit),
                !.players[i].hidden_stats.influence = Min(Fx(100), @ + Fx(1))]

set_wages(state, i, action) ==
    LET player == state.players[i]
        rd == player.role_data.business_owner
        newWage == action.params.wage_level
        oldWage == rd.wage_level
        wage_level == Max(100, Min(Fx(10), newWage))
        wage_index == state.num["economy.wage_index"]
    IN  IF player.role # "business_owner" THEN state
        ELSE IF newWage = NotANumber \/ newWage < 0 THEN state
        ELSE [state EXCEPT
                !.players[i].role_data.business_owner.wage_level = wage_level,
                !.players[i].role_data.business_owner.strike_risk =
                    IF wage_level < Frac(wage_index, 7, 10)
                    THEN Min(Fx(1), @ + 150)
                    ELSE IF wage_level > Frac(wage_index, 12, 10)
                    THEN Max(0, @ - 100)
                    ELSE @,
                !.num["economy.wage_index"] =
                    @ + Frac(wage_level - oldWage, 1, 100)]

lobby(state, i, action) ==
    LET player == state.players[i]
        targetId == action.params.politician_id
        amount == IF action.params.amount = NotANumber THEN Fx(10)
                  ELSE action.params.amount
        t == PlayerIndex(state, targetId)
        actualAmount == Min(Frac(player.visible_stats.wealth, 2, 10), amount)
    IN  IF player.role # "business_owner" THEN state
        ELSE IF targetId = Null THEN state
        ELSE IF t = 0 THEN state
        ELSE IF state.players[t].role # "politician" THEN state
        ELSE [state EXCEPT
                !.players[i].role_data.business_owner.lobby_target = targetId,
                !.players[i].visible_stats.wealth = @ - actualAmount,
                !.players[t].role_data.politician.lobby_money_received =
                    @ + actualAmount,
                !.players[t].hidden_stats.corruption =
                    Min(Fx(100), @ + Frac(actualAmount, 1, 2)),
                !.players[i].hidden_stats.influence = Min(Fx(100), @ + Fx(3)),
                !.players[i].hidden_stats.corruption = Min(Fx(100), @ + Fx(2))]

evade_taxes(state, i, action) ==
    LET player == state.players[i]
        rate == Frac(state.num["economy.tax_rate"], 1, 100)
    IN  IF player.role # "business_owner" THEN state
        ELSE [state EXCEPT
                !.players[i].role_data.business_owner.tax_evasion =
                    Min(Fx(1), @ + 200),
                !.num["economy.tax_compliance"] = Max(0, @ - 20),
                !.players[i].hidden_stats.corruption = Min(Fx(100), @ + Fx(5)),
                !.players[i].visible_stats.wealth =
                    @ + Frac(MulFx(@, rate), 1, 10)]

comply_taxes(state, i, action) ==
    LET player == state.players[i]
        rate == Frac(state.num["economy.tax_rate"], 1, 100)
    IN  IF player.role # "business_owner" THEN state
        ELSE [state EXCEPT
                !.players[i].role_data.business_owner.tax_evasion =
                    Max(0, @ - 300),
                !.num["economy.tax_compliance"] = Min(Fx(1), @ + 10),
                !.players[i].hidden_stats.corruption = Max(0, @ - Fx(2)),
                !.players[i].visible_stats.wealth =
                    @ - Frac(MulFx(@, rate), 15, 100)]

\* law.judiciary_interpretation === null
NoInterpretation ==
    [isNull |-> TRUE, implementation |-> [modifiers |-> <<>>],
     rejected_by_core |-> FALSE]

\* original_text is text.slice(0, 2000); the texts of the menus are short
propose_law(state, i, action) ==
    LET player == state.players[i]
        text == action.params.text
        law == [id |-> seededUUID(state.num["meta.seed"], Len(state.laws)),
                proposed_by |-> player.id,
                proposed_tick |-> state.num["meta.tick"],
                original_text |-> text,
                status |-> "proposed",
                votes |-> [for |-> 0, against |-> 0, abstain |-> 0],
                judiciary_interpretation |-> NoInterpretation,
                activated_tick |-> NoTick,
                repealed_tick |-> NoTick]
    IN  IF player.role # "politician" THEN state
        ELSE IF text = "" THEN state
        ELSE [state EXCEPT
                !.laws = Append(@, law),
                !.players[i].role_data.politician.laws_proposed = @ + 1,
                !.players[i].hidden_stats.influence = Min(Fx(100), @ + Fx(3))]

vote_law_politician(state, i, action) ==
    LET player == state.players[i]
        k == FindVotingLaw(state, action.params.law_id)
    IN  IF player.role # "politician" THEN state
        ELSE IF action.params.law_id = NoId \/ action.params.vote = Null
        THEN state
        ELSE IF k = 0 THEN state
        ELSE [state EXCEPT !.laws[k].votes = Tally(@, action.params.vote, Fx(3))]

RECURSIVE SumOver(_, _, _)
SumOver(f, keys, n) ==
    IF n = 0 THEN 0 ELSE f[keys[n]] + SumOver(f, keys, n - 1)

RECURSIVE SetAllocation(_, _, _)
SetAllocation(state, allocation, n) ==
    IF n = 0 THEN state
    ELSE SetAllocation(
            [state EXCEPT
                !.num[AllocationPath[AllocationKeys[n]]] =
                    allocation[AllocationKeys[n]]],
            allocation, n - 1)

allocate_budget(state, i, action) ==
    LET player == state.players[i]
        allocation == action.params.allocation
        valid == \A n \in 1..Len(AllocationKeys) :
                    /\ AllocationKeys[n] \in DOMAIN allocation
                    /\ allocation[AllocationKeys[n]] >= 0
                    /\ allocation[AllocationKeys[n]] <= Fx(1)
        sum == SumOver(allocation, AllocationKeys, Len(AllocationKeys))
    IN  IF player.role # "politician" THEN state
        ELSE IF DOMAIN allocation = {} THEN state
        ELSE IF ~valid THEN state
        ELSE IF sum - Fx(1) > 10 \/ Fx(1) - sum > 10 THEN state
        ELSE [SetAllocation(state, allocation, Len(AllocationKeys)) EXCEPT
                !.players[i].hidden_stats.influence = Min(Fx(100), @ + Fx(2))]

publish_statement(state, i, action) ==
    LET player == state.players[i]
        text == action.params.text
    IN  IF player.role # "politician" THEN state
        ELSE IF text = "" THEN state
        ELSE [state EXCEPT
                !.players[i].role_data.politician.public_statements =
                    Append(@, [tick |-> state.num["meta.tick"], text |-> text]),
                !.players[i].hidden_stats.influence = Min(Fx(100), @ + Fx(1)),
                !.players[i].hidden_stats.reputation = @ + 500]

ProcessorNames ==
    {"work", "consume", "vote_law", "join_movement", "leave_movement",
     "produce", "set_wages", "lobby", "evade_taxes", "comply_taxes",
     "propose_law", "vote_law_politician", "allocate_budget",
     "publish_statement"}

\* ACTION_PROCESSORS[action.action_type](state, player, action)
ACTION_PROCESSORS(state, i, action) ==
    CASE action.action_type = "work" -> work(state, i, action)
      [] action.action_type = "consume" -> consume(state, i, action)
      [] action.action_type = "vote_law" -> vote_law(state, i, action)
      [] action.action_type = "join_movement" -> join_movement(state, i, action)
      [] action.action_type = "leave_movement" ->
            leave_movement(state, i, action)
      [] action.action_type = "produce" -> produce(state, i, action)
      [] action.action_type = "set_wages" -> set_wages(state, i, action)
      [] action.action_type = "lobby" -> lobby(state, i, action)
      [] action.action_type = "evade_taxes" -> evade_taxes(state, i, action)
      [] action.action_type = "comply_taxes" -> comply_taxes(state, i, action)
      [] action.action_type = "propose_law" -> propose_law(state, i, action)
      [] action.action_type = "vote_law_politician" ->
            vote_law_politician(state, i, action)
      [] action.action_type = "allocate_budget" ->
            allocate_budget(state, i, action)
      [] action.action_type = "publish_statement" ->
            publish_statement(state, i, action)
      [] OTHER -> state

-----------------------------------------------------------------------------
(* ECONOMIC AUTO-CALCULATIONS *)

\* Math.round(365 / (tick_interval_hours / 24)), a plain integer
ticksPerYear(state) ==
    LET h == state.num["meta.tick_interval_hours"]
    IN  (2 * 8760 * Scale + h) \div (2 * h)

\* recalculateEconomics, one LET per block of the function, in its order
recalculateEconomics(state) ==
    LET n0 == state.num
        supply == n0["economy.market.supply"]
        demand == n0["economy.market.demand"]
        \* price index driven by supply/demand
        price ==
            IF supply > 0
            THEN clampToConstraints("economy.market.price_index",
                    Frac(n0["economy.market.price_index"], 8, 10)
                    + Frac(DivFx(demand, supply), 2, 10))
            ELSE n0["economy.market.price_index"]
        \* shortage detection
        shortage == demand > Frac(supply, 12, 10)
        \* inflation
        priceInflation == (price - Fx(1)) * 10
        deficit0 == n0["economy.budget.deficit"]
        deficitInflation == IF deficit0 > 0 THEN Frac(deficit0, 1, 100) ELSE 0
        inflation ==
            clampToConstraints("economy.inflation",
                Frac(n0["economy.inflation"], 7, 10)
                + Frac(priceInflation + deficitInflation, 3, 10))
        \* GDP growth/decline
        previousGdp == n0["economy.gdp"]
        growthFactor == Fx(1) + (20 - Frac(inflation, 1, 1000)
                                    - Frac(n0["economy.unemployment"], 1, 1000))
        gdp1 == clampToConstraints("economy.gdp",
                                   MulFx(previousGdp, growthFactor))
        gdp_delta == gdp1 - previousGdp
        \* budget
        spending == n0["economy.budget.spending"]
        revenue ==
            MulFx(MulFx(gdp1, Frac(n0["economy.tax_rate"], 1, 100)),
                  n0["economy.tax_compliance"]) \div ticksPerYear(state)
        deficit == spending - revenue
        reserves == clampToConstraints("economy.budget.reserves",
                        n0["economy.budget.reserves"] - deficit)
        \* unemployment
        unemployment ==
            IF gdp_delta > 0
            THEN Max(0, n0["economy.unemployment"] - 300)
            ELSE Min(Fx(100), n0["economy.unemployment"] + 500)
        \* spending effects
        welfare == MulFx(n0["government.budget_allocation.welfare"], spending)
        enforcement ==
            MulFx(n0["government.budget_allocation.enforcement"], spending)
        education ==
            MulFx(n0["government.budget_allocation.education"], spending)
        infrastructure ==
            MulFx(n0["government.budget_allocation.infrastructure"], spending)
        satisfaction ==
            clampToConstraints("society.satisfaction",
                n0["society.satisfaction"] + Frac(welfare, 1, 1000))
        radicalization ==
            clampToConstraints("society.radicalization",
                n0["society.radicalization"] - Frac(enforcement, 5, 10000))
        public_trust ==
            clampToConstraints("society.public_trust",
                n0["society.public_trust"] - Frac(enforcement, 2, 10000))
        stability1 ==
            clampToConstraints("society.stability",
                n0["society.stability"] + Frac(education, 1, 10000))
        gdp == gdp1 + Frac(infrastructure, 5, 1000)
        \* satisfaction -> stability feedback
        stability2 ==
            IF satisfaction < Fx(30)
            THEN stability1 - Frac(Fx(30) - satisfaction, 5, 100)
            ELSE stability1
        stability3 ==
            IF radicalization > Fx(50)
            THEN stability2 - Frac(radicalization - Fx(50), 3, 100)
            ELSE stability2
        stability == clampToConstraints("society.stability", stability3)
        \* protest pressure accumulation and natural decay
        protest0 ==
            n0["society.protest_pressure"]
            + (IF satisfaction < Fx(40) THEN 50 ELSE 0)
            + (IF shortage THEN 100 ELSE 0)
            + (IF unemployment > Fx(15) THEN 30 ELSE 0)
        protest_pressure ==
            clampToConstraints("society.protest_pressure",
                               Frac(protest0, 9, 10))
    IN  [state EXCEPT
            !.shortage = shortage,
            !.num = [n0 EXCEPT
                !["economy.market.price_index"] = price,
                !["economy.inflation"] = inflation,
                !["economy.gdp"] = gdp,
                !["economy.gdp_delta"] = gdp_delta,
                !["economy.budget.revenue"] = revenue,
                !["economy.budget.deficit"] = deficit,
                !["economy.budget.reserves"] = reserves,
                !["economy.unemployment"] = unemployment,
                !["society.satisfaction"] = satisfaction,
                !["society.radicalization"] = radicalization,
                !["society.public_trust"] = public_trust,
                !["society.stability"] = stability,
                !["society.protest_pressure"] = protest_pressure,
                \* market natural decay toward equilibrium
                !["economy.market.supply"] = Frac(supply, 95, 100),
                !["economy.market.demand"] = Frac(demand, 90, 100)]]

-----------------------------------------------------------------------------
(* LAW LIFECYCLE *)

\* one pass of the loop body of processLawLifecycle over law k; acc is
\* [state, activated, rejected, threw]
votesPassOnTie(votes) ==
    votes.for + votes.against > 0 /\ votes.for >= votes.against

\* totalVotes > 0 && law.votes.for > law.votes.against
votesPass(votes) ==
    votes.for + votes.against > 0 /\ votes.for > votes.against

LawLifecycleStep(acc, k) ==
    LET s0 == acc.state
        tick == s0.num["meta.tick"]
        law0 == s0.laws[k]
        \* proposed -> voting
        status1 == IF law0.status = "proposed" /\ law0.proposed_tick < tick
                   THEN "voting" ELSE law0.status
        \* voting -> active or rejected
        totalVotes == law0.votes.for + law0.votes.against
        passes == status1 = "voting" /\ votesPass(law0.votes)
        fails == status1 = "voting" /\ totalVotes > 0 /\ ~passes
        status2 == IF passes THEN "active"
                   ELSE IF fails THEN "rejected" ELSE status1
        s1 == [s0 EXCEPT
                !.laws[k].status = status2,
                !.laws[k].activated_tick = IF passes THEN tick ELSE @,
                !.num["government.active_law_count"] =
                    IF passes THEN @ + Fx(1) ELSE @]
        \* active laws with judiciary interpretation: apply modifiers
        interp == law0.judiciary_interpretation
        applies == status2 = "active" /\ ~interp.isNull
                    /\ ~interp.rejected_by_core
        run == applyModifiers(s1, interp.implementation.modifiers)
        s2 == IF ~applies THEN s1
              ELSE IF run.threw THEN run.state
              ELSE [run.state EXCEPT
                      !.laws[k].judiciary_interpretation.rejected_by_core =
                          AnyRejected(run.results)]
    IN  [state |-> s2,
         activated |-> acc.activated + (IF passes THEN 1 ELSE 0),
         rejected |-> acc.rejected + (IF fails THEN 1 ELSE 0),
         threw |-> applies /\ run.threw]

RECURSIVE LawLifecycleFrom(_, _)
LawLifecycleFrom(acc, k) ==
    IF acc.threw \/ k > Len(acc.state.laws) THEN acc
    ELSE LawLifecycleFrom(LawLifecycleStep(acc, k), k + 1)

\* processLawLifecycle: [state, activated, rejected, threw]
processLawLifecycle(state) ==
    LawLifecycleFrom([state |-> state, activated |-> 0, rejected |-> 0,
                      threw |-> FALSE], 1)

-----------------------------------------------------------------------------
(* THRESHOLD EVENT GENERATION *)

THRESHOLD_TRIGGERS ==
    <<[variable |-> "economy.gdp", condition |-> "below", value |-> Fx(100),
       event_type |-> "economic_crisis", severity |-> 5, cooldown_ticks |-> 10],
      [variable |-> "economy.inflation", condition |-> "above",
       value |-> Fx(50), event_type |-> "hyperinflation", severity |-> 4,
       cooldown_ticks |-> 5],
      [variable |-> "economy.unemployment", condition |-> "above",
       value |-> Fx(25), event_type |-> "protest", severity |-> 3,
       cooldown_ticks |-> 3],
      [variable |-> "society.stability", condition |-> "below",
       value |-> Fx(20), event_type |-> "revolution", severity |-> 5,
       cooldown_ticks |-> 20],
      [variable |-> "society.stability", condition |-> "above",
       value |-> Fx(90), event_type |-> "scandal", severity |-> 2,
       cooldown_ticks |-> 5],
      [variable |-> "society.radicalization", condition |-> "above",
       value |-> Fx(80), event_type |-> "revolution", severity |-> 4,
       cooldown_ticks |-> 15],
      [variable |-> "society.radicalization", condition |-> "above",
       value |-> Fx(60), event_type |-> "movement_formed", severity |-> 2,
       cooldown_ticks |-> 5],
      [variable |-> "economy.budget.reserves", condition |-> "below",
       value |-> 0, event_type |-> "budget_crisis", severity |-> 3,
       cooldown_ticks |-> 5]>>

\* the lookup that finds no entry in the map, whatever it holds
lastTriggeredNever(cooldowns, event_type) == -Infinity

\* triggerCooldowns.get(event_type) ?? -Infinity
lastTriggered(cooldowns, event_type) ==
    IF event_type \in DOMAIN cooldowns THEN cooldowns[event_type]
    ELSE -Infinity

\* one pass of the loop of checkThresholds over trigger t; acc is
\* [events, cooldowns, counter]
ThresholdStep(state, acc, t) ==
    LET trigger == THRESHOLD_TRIGGERS[t]
        got == getByPath(state, trigger.variable)
        value == got.value
        tick == state.num["meta.tick"]
        triggered ==
            \/ trigger.condition = "above" /\ value > trigger.value
            \/ trigger.condition = "below" /\ value < trigger.value
        lastTick == lastTriggered(acc.cooldowns, trigger.event_type)
        cooling == IsFinite(lastTick)
                    /\ tick - lastTick < Fx(trigger.cooldown_ticks)
        event == [id |-> seededUUID(state.num["meta.seed"], 9000 + acc.counter),
                  source |-> "core_engine", tick |-> tick,
                  type |-> trigger.event_type, severity |-> trigger.severity,
                  status |-> "applied", modifiers |-> <<>>,
                  duration_ticks |-> 0, expires_tick |-> NoTick]
    IN  IF ~got.defined \/ ~triggered \/ cooling THEN acc
        ELSE [events |-> Append(acc.events, event),
              cooldowns |->
                [e \in DOMAIN acc.cooldowns \cup {trigger.event_type} |->
                    IF e = trigger.event_type THEN tick ELSE acc.cooldowns[e]],
              counter |-> acc.counter + 1]

RECURSIVE ThresholdsFrom(_, _, _)
ThresholdsFrom(state, acc, t) ==
    IF t > Len(THRESHOLD_TRIGGERS) THEN acc
    ELSE ThresholdsFrom(state, ThresholdStep(state, acc, t), t + 1)

\* checkThresholds returning after the first entry that emits
checkThresholdsFirstOnly(state, cooldowns) ==
    LET all == ThresholdsFrom(state, [events |-> <<>>, cooldowns |-> cooldowns,
                                      counter |-> 0], 1)
    IN  [all EXCEPT !.events = IF Len(@) > 1 THEN <<@[1]>> ELSE @]

\* checkThresholds: the events to push and the cooldown map after the call
checkThresholds(state, cooldowns) ==
    ThresholdsFrom(state, [events |-> <<>>, cooldowns |-> cooldowns,
                           counter |-> 0], 1)

-----------------------------------------------------------------------------
(* EVENT PROCESSING *)

\* SOURCE_PRIORITY[source] ?? 0
SOURCE_PRIORITY(source) ==
    CASE source = "core_engine" -> 100
      [] source = "judiciary" -> 85
      [] source = "crisis" -> 70
      [] source = "political_reaction" -> 60
      [] source = "state_analyst" -> 50
      [] source = "media" -> 10
      [] OTHER -> 0

\* the "Expire old events" loop
expireEvents(state) ==
    [state EXCEPT !.events =
        [k \in 1..Len(@) |->
            IF /\ @[k].status = "applied"
               /\ @[k].expires_tick # NoTick /\ @[k].expires_tick # 0
               /\ state.num["meta.tick"] >= @[k].expires_tick
            THEN [@[k] EXCEPT !.status = "expired"]
            ELSE @[k]]]

\* state.events.filter(pending).sort(by descending priority): the indices of
\* the pending events in the order the loop takes them (the sort is stable)
RECURSIVE SortPending(_, _)
SortPending(state, left) ==
    IF left = {} THEN <<>>
    ELSE LET first == CHOOSE k \in left : \A m \in left :
                        \/ SOURCE_PRIORITY(state.events[k].source)
                            > SOURCE_PRIORITY(state.events[m].source)
                        \/ /\ SOURCE_PRIORITY(state.events[k].source)
                                = SOURCE_PRIORITY(state.events[m].source)
                           /\ k <= m
         IN  <<first>> \o SortPending(state, left \ {first})

\* one pass of the "Apply pending events" loop over event k; acc is
\* [state, applied, rejected, threw]
ProcessEventStep(acc, k) ==
    LET s0 == acc.state
        event == s0.events[k]
        expires == IF event.duration_ticks # 0
                   THEN s0.num["meta.tick"] + event.duration_ticks
                   ELSE event.expires_tick
        run == applyModifiers(s0, event.modifiers)
        allApplied == ~AnyRejected(run.results)
    IN  IF Len(event.modifiers) = 0
        THEN [acc EXCEPT
                !.state = [s0 EXCEPT !.events[k].status = "applied",
                                     !.events[k].expires_tick = expires],
                !.applied = @ + 1]
        ELSE IF run.threw
        THEN [acc EXCEPT !.state = run.state, !.threw = TRUE]
        ELSE IF allApplied
        THEN [acc EXCEPT
                !.state = [run.state EXCEPT
                                !.events[k].status = "applied",
                                !.events[k].expires_tick = expires],
                !.applied = @ + 1]
        ELSE [acc EXCEPT
                !.state = [rollback(run.state, run.results) EXCEPT
                                !.events[k].status = "rejected"],
                !.rejected = @ + 1]

RECURSIVE ProcessEventsFrom(_, _, _)
ProcessEventsFrom(acc, order, n) ==
    IF acc.threw \/ n > Len(order) THEN acc
    ELSE ProcessEventsFrom(ProcessEventStep(acc, order[n]), order, n + 1)

\* processEvents: [state, applied, rejected, threw]
processEvents(state) ==
    LET s0 == expireEvents(state)
        pending == SortPending(s0,
                    {k \in 1..Len(s0.events) : s0.events[k].status = "pending"})
    IN  ProcessEventsFrom([state |-> s0, applied |-> 0, rejected |-> 0,
                           threw |-> FALSE], pending, 1)

-----------------------------------------------------------------------------
(* ADVISOR OUTPUTS *)

\* What one call of an advisor gives processTick: the promise rejects
\* ("throws"), resolves to null, or resolves to an object ("value").
Throws == [kind |-> "throws"]
NullOut == [kind |-> "null"]

\* StateAnalystOutput; risks says whether the risks field is an array
AnalystOut(risks) == [kind |-> "value", risks |-> risks]

\* JudiciaryOutput; ambiguities says whether that field is an array
JudiciaryOut(interpretation, ambiguities, modifiers) ==
    [kind |-> "value", interpretation |-> interpretation,
     ambiguities |-> ambiguities,
     implementation |-> [modifiers |-> modifiers]]

\* MediaOutput: the texts of the headlines and of the rumors
MediaOut(headlines, rumors) ==
    [kind |-> "value", headlines |-> headlines, rumors |-> rumors]

\* PoliticalReactionOutput; a protest_prob that is no number is NotANumber
ReactionOut(approval_delta, protest_prob, movements) ==
    [kind |-> "value", approval_delta |-> approval_delta,
     protest_prob |-> protest_prob, movements |-> movements]

\* one entry of PoliticalReactionOutput.movements
MovementChange(action, name, type, id, delta) ==
    [action |-> action, name |-> name, type |-> type, id |-> id,
     delta |-> delta]

\* CrisisOutput; a duration_ticks of null is 0
CrisisOut(event_type, severity, modifiers, duration_ticks) ==
    [kind |-> "value", event_type |-> event_type, severity |-> severity,
     modifiers |-> modifiers, duration_ticks |-> duration_ticks]

\* HistorianOutput; an absent era_name is "", absent reputations are empty
HistorianOut(era_name, player_reputations) ==
    [kind |-> "value", era_name |-> era_name,
     player_reputations |-> player_reputations]

ApprovalPath ==
    [k \in {"overall", "citizens", "business", "elite"} |->
        CASE k = "overall" -> "government.approval.overall"
          [] k = "citizens" -> "government.approval.citizens"
          [] k = "business" -> "government.approval.business"
          [] OTHER -> "government.approval.elite"]

-----------------------------------------------------------------------------
(* ADVISOR REGISTRY (ai-integration.ts) *)

\* buildAIRegistry: what each wrapper hands to processTick, given what the
\* call to the language model gave (callAISystem catches every failure and
\* returns null, so llm is NullOut or a value that passed the check of the
\* required top-level fields)
stateAnalyst(llm, state) ==
    IF llm.kind # "value" THEN AnalystOut(TRUE) ELSE llm

\* the wrapper of the judiciary without its fallback
judiciaryNoFallback(llm, state) == llm

judiciary(llm, state) ==
    IF llm.kind # "value"
    THEN JudiciaryOut("Law text under review. No implementation this cycle.",
                      TRUE, <<>>)
    ELSE llm

media(llm, state) ==
    IF llm.kind # "value"
    THEN MediaOut(<<"No news reports available this cycle.",
                    "Communications disrupted -- details unclear.">>, <<>>)
    ELSE llm

\* the wrapper of the political reaction without its fallback
politicalReactionNoFallback(llm, state) == llm

politicalReaction(llm, state) ==
    IF llm.kind # "value"
    THEN ReactionOut([k \in DOMAIN ApprovalPath |-> -Fx(1)],
                     Min(Fx(1), state.num["society.protest_pressure"] + 20),
                     <<>>)
    ELSE llm

crisis(llm, state) == llm

historian(llm, state) == llm

-----------------------------------------------------------------------------
(* MAIN TICK PROCESSOR: the locals of one processTick call *)

ActionsHistoryCap == 10
TickLogCap == 50

Unset == [kind |-> "unset"]

\* no processTick call in flight
IdleRun ==
    [pc |-> "idle", tick |-> 0,
     aiOutputs |-> [state_analyst |-> Unset, judiciary |-> <<>>,
                    media |-> Unset, political_reaction |-> Unset,
                    crisis |-> Unset, historian |-> Unset],
     actionsProcessed |-> 0, actionsSkipped |-> 0,
     lawResults |-> [activated |-> 0, rejected |-> 0],
     newLaws |-> <<>>, nextLaw |-> 1,
     eventResults |-> [applied |-> 0, rejected |-> 0],
     thresholdEvents |-> 0]

\* the inner loop of PHASE 2 over the pending actions of player i, from
\* the n-th on; acc is [state, processed]
RECURSIVE ProcessPendingFrom(_, _, _)
ProcessPendingFrom(acc, i, n) ==
    LET pending == acc.state.players[i].actions_pending
        action == pending[n]
    IN  IF n > Len(pending) THEN acc
        ELSE ProcessPendingFrom(
                IF action.action_type \in ProcessorNames
                THEN [state |-> ACTION_PROCESSORS(acc.state, i, action),
                      processed |-> acc.processed + 1]
                ELSE acc,
                i, n + 1)

\* "Archive actions": done is the inner loop's result for player i
archiveActions(done, skipped, i, tick) ==
    [state |-> [done.state EXCEPT
                    !.players[i].actions_history =
                        IF Len(@) + 1 > ActionsHistoryCap
                        THEN Tail(Append(@,
                                [tick |-> tick,
                                 actions |-> done.state.players[i]
                                                .actions_pending]))
                        ELSE Append(@,
                                [tick |-> tick,
                                 actions |-> done.state.players[i]
                                                .actions_pending]),
                    !.players[i].actions_pending = <<>>],
     processed |-> done.processed,
     skipped |-> skipped]

\* one pass of the outer loop of PHASE 2 over player i; acc is
\* [state, processed, skipped]
ProcessPlayerStep(acc, i, tick) ==
    IF ~acc.state.players[i].alive THEN acc
    ELSE IF Len(acc.state.players[i].actions_pending) = 0
    THEN [acc EXCEPT !.skipped = @ + 1]
    ELSE archiveActions(
            ProcessPendingFrom([state |-> acc.state,
                                processed |-> acc.processed], i, 1),
            acc.skipped, i, tick)

RECURSIVE ProcessPlayersFrom(_, _, _)
ProcessPlayersFrom(acc, i, tick) ==
    IF i > Len(acc.state.players) THEN acc
    ELSE ProcessPlayersFrom(ProcessPlayerStep(acc, i, tick), i + 1, tick)

\* state.laws.filter(active and not interpreted): their indices, in order
NewLaws(state) ==
    LET hit(k) == /\ state.laws[k].status = "active"
                  /\ state.laws[k].judiciary_interpretation.isNull
        RECURSIVE From(_)
        From(k) == IF k > Len(state.laws) THEN <<>>
                   ELSE IF hit(k) THEN <<k>> \o From(k + 1)
                   ELSE From(k + 1)
    IN  From(1)

\* the end of PHASE 4 and the start of PHASE 5: laws is what
\* processLawLifecycle returned, run the locals so far
enterEvaluation(laws, run, cooldowns) ==
    IF laws.threw
    THEN [state |-> laws.state, run |-> [run EXCEPT !.pc = "threw"],
          cooldowns |-> cooldowns, preEvents |-> NoWorld]
    ELSE [state |-> [laws.state EXCEPT !.phase = "ai_evaluation"],
          run |-> [run EXCEPT
                    !.pc = "analyst",
                    !.lawResults = [activated |-> laws.activated,
                                    rejected |-> laws.rejected]],
          cooldowns |-> cooldowns, preEvents |-> NoWorld]

\* PHASE 3 and 4: acted is what the loop of PHASE 2 left
afterActions(acted, tick, cooldowns) ==
    enterEvaluation(
        processLawLifecycle(recalculateEconomics(acted.state)),
        [IdleRun EXCEPT !.tick = tick,
                        !.actionsProcessed = acted.processed,
                        !.actionsSkipped = acted.skipped],
        cooldowns)

\* processTick from its first line to the await of the state analyst: PHASE
\* 1 to 4.  The result is the world, the locals and the cooldown map; pc is
\* "threw" when processLawLifecycle threw.
tickBegin(state, cooldowns) ==
    afterActions(
        ProcessPlayersFrom([state |-> [state EXCEPT !.phase = "processing"],
                            processed |-> 0, skipped |-> 0],
                           1, state.num["meta.tick"]),
        state.num["meta.tick"], cooldowns)

\* Step 3, after the await: the analyst's output is kept unless reading
\* analystOutput.risks.length throws; then newLaws is taken
afterAnalyst(m, out) ==
    LET kept == IF out.kind = "value" /\ out.risks THEN out ELSE NullOut
        newLaws == NewLaws(m.state)
    IN  [m EXCEPT
            !.run.aiOutputs.state_analyst = kept,
            !.run.newLaws = newLaws,
            !.run.nextLaw = 1,
            !.run.pc = IF Len(newLaws) = 0 THEN "media" ELSE "judiciary"]

\* Step 4, one pass of the loop after its await, for the law newLaws[nextLaw]
afterJudiciary(m, out) ==
    LET k == m.run.newLaws[m.run.nextLaw]
        bound == [m.state EXCEPT !.laws[k].judiciary_interpretation =
                    [isNull |-> FALSE, implementation |-> out.implementation,
                     rejected_by_core |-> FALSE]]
        applied == applyModifiers(bound, out.implementation.modifiers)
        s1 == IF out.kind # "value" THEN m.state
              ELSE IF Len(out.implementation.modifiers) = 0 THEN bound
              ELSE IF applied.threw THEN applied.state
              ELSE IF AnyRejected(applied.results)
              THEN [rollback(applied.state, applied.results) EXCEPT
                      !.laws[k].judiciary_interpretation.rejected_by_core =
                          TRUE]
              ELSE applied.state
        last == m.run.nextLaw = Len(m.run.newLaws)
    IN  [m EXCEPT
            !.state = s1,
            !.run.aiOutputs.judiciary =
                IF out.kind = "throws" THEN @ ELSE Append(@, out),
            !.run.nextLaw = @ + 1,
            !.run.pc = IF last THEN "media" ELSE "judiciary"]

\* Step 5, after the await
afterMedia(m, out) ==
    LET seed == m.state.num["meta.seed"]
        headlines ==
            [n \in 1..Len(out.headlines) |->
                [id |-> seededUUID(seed, 5000 + n - 1), tick |-> m.run.tick,
                 text |-> out.headlines[n]]]
        rumors ==
            [n \in 1..Len(out.rumors) |->
                [id |-> seededUUID(seed, 6000 + n - 1), tick |-> m.run.tick,
                 text |-> out.rumors[n]]]
    IN  IF out.kind # "value"
        THEN [m EXCEPT !.run.aiOutputs.media = NullOut,
                       !.run.pc = "reaction"]
        ELSE [m EXCEPT
                !.state.media_state = [headlines |-> headlines,
                                       rumors |-> rumors],
                !.run.aiOutputs.media = out,
                !.run.pc = "reaction"]

\* "Apply approval deltas": the keys in the order of Object.entries
RECURSIVE ApplyApprovalDeltas(_, _, _)
ApplyApprovalDeltas(state, approval_delta, keys) ==
    IF keys = {} THEN state
    ELSE LET key == CHOOSE k \in keys : TRUE
             path == ApprovalPath[key]
             current == getByPath(state, path)
         IN  ApplyApprovalDeltas(
                IF current.defined
                THEN setByPath(state, path,
                        clampToConstraints(path,
                            current.value + approval_delta[key]))
                ELSE state,
                approval_delta, keys \ {key})

\* "Process movement changes": one entry of polOutput.movements
MovementStep(state, mvt, tick) ==
    LET k == FindMovement(state, mvt.id)
    IN  IF mvt.action = "create" /\ mvt.name # "" /\ mvt.type # ""
        THEN [state EXCEPT !.movements = Append(@,
                [id |-> seededUUID(state.num["meta.seed"],
                                   7000 + Len(state.movements)),
                 name |-> mvt.name, type |-> mvt.type, strength |-> 300,
                 demands |-> <<>>, member_player_ids |-> <<>>,
                 created_tick |-> tick])]
        ELSE IF mvt.action = "strengthen" /\ mvt.id # NoId
        THEN IF k = 0 THEN state
             ELSE [state EXCEPT !.movements[k].strength =
                        Min(Fx(1), @ + (IF mvt.delta = NotANumber THEN 100
                                        ELSE mvt.delta))]
        ELSE IF mvt.action = "dissolve" /\ mvt.id # NoId
        THEN [state EXCEPT !.movements =
                    SelectSeq(@, LAMBDA x : x.id # mvt.id)]
        ELSE state

RECURSIVE MovementsFrom(_, _, _, _)
MovementsFrom(state, movements, n, tick) ==
    IF n > Len(movements) THEN state
    ELSE MovementsFrom(MovementStep(state, movements[n], tick), movements,
                       n + 1, tick)

\* Step 6 with the protest pressure moved to the mean whatever the
\* advisor's probability
afterReactionToMean(m, out) ==
    LET s1 == ApplyApprovalDeltas(m.state, out.approval_delta,
                                  DOMAIN out.approval_delta)
        pressure == s1.num["society.protest_pressure"]
        s2 == IF out.protest_prob # NotANumber
              THEN [s1 EXCEPT !.num["society.protest_pressure"] =
                        clampToConstraints("society.protest_pressure",
                            Frac(pressure, 1, 2)
                            + Frac(out.protest_prob, 1, 2))]
              ELSE s1
        s3 == MovementsFrom(s2, out.movements, 1, m.run.tick)
    IN  IF out.kind # "value"
        THEN [m EXCEPT !.run.aiOutputs.political_reaction = NullOut,
                       !.run.pc = "crisis"]
        ELSE [m EXCEPT
                !.state = s3,
                !.run.aiOutputs.political_reaction =
                    IF out.protest_prob = NotANumber THEN NullOut ELSE out,
                !.run.pc = "crisis"]

\* Step 6, after the await.  The writes stay when the closing log line
\* throws on a protest_prob that is no number.
afterReaction(m, out) ==
    LET s1 == ApplyApprovalDeltas(m.state, out.approval_delta,
                                  DOMAIN out.approval_delta)
        pressure == s1.num["society.protest_pressure"]
        s2 == IF out.protest_prob # NotANumber /\ out.protest_prob > pressure
              THEN [s1 EXCEPT !.num["society.protest_pressure"] =
                        clampToConstraints("society.protest_pressure",
                            Frac(pressure, 1, 2)
                            + Frac(out.protest_prob, 1, 2))]
              ELSE s1
        s3 == MovementsFrom(s2, out.movements, 1, m.run.tick)
    IN  IF out.kind # "value"
        THEN [m EXCEPT !.run.aiOutputs.political_reaction = NullOut,
                       !.run.pc = "crisis"]
        ELSE [m EXCEPT
                !.state = s3,
                !.run.aiOutputs.political_reaction =
                    IF out.protest_prob = NotANumber THEN NullOut ELSE out,
                !.run.pc = "crisis"]


\* the end of PHASE 6: processed is what processEvents returned
afterEvents(processed, run, cooldowns, thresholdEvents, found) ==
    [state |-> processed.state,
     run |-> [run EXCEPT
                !.thresholdEvents = thresholdEvents,
                !.eventResults = [applied |-> processed.applied,
                                  rejected |-> processed.rejected],
                !.pc = IF processed.threw THEN "threw" ELSE "historian"],
     cooldowns |-> cooldowns,
     preEvents |-> found]

\* PHASE 6 from the push of the threshold events on: found is the world
\* with them pushed
runEvents(found, run, thresholds) ==
    afterEvents(processEvents(found), run, thresholds.cooldowns,
                Len(thresholds.events), found)

\* PHASE 6: thresholds is what checkThresholds returned
pushThresholds(state, run, thresholds) ==
    runEvents([state EXCEPT !.events = @ \o thresholds.events], run,
              thresholds)

\* the world with the crisis event pushed
pushCrisis(state, out, tick) ==
    [state EXCEPT !.events = Append(@,
        [id |-> seededUUID(state.num["meta.seed"], 8000),
         source |-> "crisis", tick |-> tick,
         type |-> out.event_type, severity |-> out.severity,
         status |-> "pending", modifiers |-> out.modifiers,
         duration_ticks |-> out.duration_ticks, expires_tick |-> NoTick])]

\* PHASE 6 on the world s1 that Step 7 left
phaseEvents(s1, run, cooldowns) ==
    pushThresholds(s1, run, checkThresholds(s1, cooldowns))

\* Step 7 after its await, then PHASE 6: the crisis event is pushed,
\* checkThresholds and processEvents run.  pc is "threw" when processEvents
\* threw; preEvents is the world as processEvents found it.
afterCrisis(m, out) ==
    phaseEvents(
        IF out.kind = "value" THEN pushCrisis(m.state, out, m.run.tick)
        ELSE m.state,
        [m.run EXCEPT !.aiOutputs.crisis =
                        IF out.kind = "value" THEN out ELSE NullOut],
        m.cooldowns)

\* "Update history record" with the era before left open
updateHistoryLeavesOpen(state, out, tick) ==
    LET eras == state.history.eras
        currentEra == eras[Len(eras)]
        s1 == IF out.era_name # "" /\ Len(eras) > 0
                    /\ currentEra.name # out.era_name
              THEN [state EXCEPT !.history.eras =
                        Append(@, [name |-> out.era_name, tick_start |-> tick,
                                   tick_end |-> NoTick])]
              ELSE state
        old == s1.history.player_reputations
        new == out.player_reputations
    IN  IF DOMAIN new = {} THEN s1
        ELSE [s1 EXCEPT !.history.player_reputations =
                [id \in DOMAIN old \cup DOMAIN new |->
                    IF id \in DOMAIN new THEN new[id] ELSE old[id]]]

\* "Update history record"
updateHistory(state, out, tick) ==
    LET eras == state.history.eras
        currentEra == eras[Len(eras)]
        s1 == IF out.era_name # "" /\ Len(eras) > 0
                    /\ currentEra.name # out.era_name
              THEN [state EXCEPT !.history.eras =
                        Append([@ EXCEPT ![Len(eras)].tick_end = tick],
                               [name |-> out.era_name, tick_start |-> tick,
                                tick_end |-> NoTick])]
              ELSE state
        old == s1.history.player_reputations
        new == out.player_reputations
    IN  IF DOMAIN new = {} THEN s1
        ELSE [s1 EXCEPT !.history.player_reputations =
                [id \in DOMAIN old \cup DOMAIN new |->
                    IF id \in DOMAIN new THEN new[id] ELSE old[id]]]

\* PHASE 7; now is what new Date() reads
finalize(state, run, now) ==
    LET s1 == [state EXCEPT
                !.num["meta.tick"] = @ + Fx(1),
                !.phase = "resolved",
                !.num["meta.seed"] = @ + Fx(1)]
        s2 == [s1 EXCEPT !.tick_deadline =
                    now + s1.num["meta.tick_interval_hours"]]
        logEntry ==
            [tick |-> run.tick, timestamp |-> now,
             actions_processed |-> run.actionsProcessed,
             actions_skipped |-> run.actionsSkipped,
             events_applied |-> run.eventResults.applied + run.thresholdEvents,
             events_rejected |-> run.eventResults.rejected,
             laws_activated |-> run.lawResults.activated,
             laws_rejected |-> run.lawResults.rejected,
             state_snapshot_hash |-> hashState(s2),
             ai_outputs |-> run.aiOutputs]
        pushed == Append(s2.tick_log, logEntry)
    IN  [s2 EXCEPT
            !.tick_log = IF Len(pushed) > TickLogCap THEN Tail(pushed)
                         ELSE pushed,
            !.phase = "accepting_actions"]

\* Step 8 after its await, then PHASE 7
afterHistorian(m, out, now) ==
    LET s1 == IF out.kind = "value"
              THEN updateHistory(m.state, out, m.run.tick)
              ELSE m.state
        run == [m.run EXCEPT
                    !.aiOutputs.historian =
                        IF out.kind = "value" THEN out ELSE NullOut,
                    !.pc = "done"]
    IN  [m EXCEPT !.state = finalize(s1, run, now), !.run = run]

\* every pass of the judiciary loop, the n-th call answered by outs[n]
RECURSIVE judiciaryLoop(_, _, _)
judiciaryLoop(m, outs, n) ==
    IF m.run.pc # "judiciary" THEN m
    ELSE judiciaryLoop(afterJudiciary(m, outs[n]), outs, n + 1)

\* processTick from the historian's call on, unless PHASE 6 threw
tickEnd(m5, ai, now) ==
    IF m5.run.pc = "threw" THEN m5 ELSE afterHistorian(m5, ai.historian, now)

\* processTick from the state analyst's answer on, unless PHASE 4 threw
tickRest(m0, ai, now) ==
    IF m0.run.pc = "threw" THEN m0
    ELSE tickEnd(
            afterCrisis(
                afterReaction(
                    afterMedia(
                        judiciaryLoop(afterAnalyst(m0, ai.stateAnalyst),
                                      ai.judiciary, 1),
                        ai.media),
                    ai.politicalReaction),
                ai.crisis),
            ai, now)

\* processTick as one function of the world, the cooldown map of the
\* process, what each advisor answers and what the clock reads: the world,
\* the locals (pc is "done", or "threw") and the cooldown map after it.
\* ai.judiciary answers the calls of the judiciary in their order.
processTick(state, cooldowns, ai, now) ==
    tickRest(tickBegin(state, cooldowns), ai, now)

-----------------------------------------------------------------------------
(* PLAYER VIEW GENERATION *)

\* seededRandom: the first four bytes of SHA-256 of "<seed>-<index>",
\* modulo 10000, over 10000: some fixed function of the two into [0, 1)
seededRandom(seed, index) == ((seed * 7 + index * 13) % 10) * 100

\* noise: base + (n - 0.5) * 2 * magnitude
noise(noiseSeed, base, magnitude, index) ==
    base + MulFx((seededRandom(noiseSeed, index) - 500) * 2, magnitude)

\* Math.round to a whole number, to one decimal and to two decimals
RoundTo(x, unit) == ((x + unit \div 2) \div unit) * unit

actionsByRole(role) ==
    CASE role = "citizen" ->
            {"work", "consume", "vote_law", "join_movement", "leave_movement"}
      [] role = "business_owner" ->
            {"produce", "set_wages", "lobby", "evade_taxes", "comply_taxes"}
      [] role = "politician" ->
            {"propose_law", "vote_law_politician", "allocate_budget",
             "publish_statement"}
      [] OTHER -> {}

\* "Role-specific visible data"
\* role-specific data that hands out the player's hidden influence
roleSpecificWithInfluence(state, player, noiseSeed) ==
    [influence |-> player.hidden_stats.influence]

roleSpecific(state, player, noiseSeed) ==
    CASE player.role = "citizen" ->
            LET rd == player.role_data.citizen
            IN  [employed |-> rd.employer_id # Null,
                 mood |-> IF rd.satisfaction > Fx(60) THEN "content"
                          ELSE IF rd.satisfaction > Fx(35) THEN "uneasy"
                          ELSE "distressed"]
      [] player.role = "business_owner" ->
            LET rd == player.role_data.business_owner
            IN  [employees |-> rd.employees,
                 production |-> rd.production_capacity,
                 wage_level |-> rd.wage_level,
                 labor_mood |-> IF rd.strike_risk < 300 THEN "stable"
                                ELSE IF rd.strike_risk < 600 THEN "restless"
                                ELSE "volatile"]
      [] player.role = "politician" ->
            LET prd == player.role_data.politician
            IN  [laws_proposed |-> prd.laws_proposed,
                 laws_passed |-> prd.laws_passed,
                 approval_estimate |->
                    RoundTo(noise(noiseSeed,
                                  state.num["government.approval.overall"],
                                  Fx(8), 4), Scale),
                 unemployment_estimate |->
                    RoundTo(noise(noiseSeed, state.num["economy.unemployment"],
                                  Fx(3), 5), 100)]
      [] OTHER -> [none |-> TRUE]

NoView == [isNull |-> TRUE]

\* generatePlayerView: null when the player is not found or not alive.  A
\* headline's bias is carried by its text.
generatePlayerView(state, playerId, noiseSeed) ==
    LET i == PlayerIndex(state, playerId)
        player == state.players[i]
        noisyChange ==
            noise(noiseSeed, state.num["economy.market.price_index"] - Fx(1),
                  100, 1)
        noisyRatio ==
            noise(noiseSeed,
                  DivFx(state.num["economy.market.supply"],
                        Max(Fx(1), state.num["economy.market.demand"])),
                  150, 2)
        noisyApproval ==
            noise(noiseSeed, state.num["government.approval.overall"],
                  Fx(10), 3)
    IN  IF i = 0 THEN NoView
        ELSE IF ~player.alive THEN NoView
        ELSE [isNull |-> FALSE,
              tick |-> state.num["meta.tick"],
              role |-> player.role,
              wealth |-> RoundTo(player.visible_stats.wealth, 10),
              headlines |-> [n \in 1..Len(state.media_state.headlines) |->
                                [text |-> state.media_state.headlines[n].text]],
              rumors |-> [n \in 1..Len(state.media_state.rumors) |->
                                [text |-> state.media_state.rumors[n].text]],
              market_signals |->
                [price_trend |-> IF noisyChange > 50 THEN "rising"
                                 ELSE IF noisyChange < -50 THEN "falling"
                                 ELSE "stable",
                 availability |-> IF noisyRatio > 1300 THEN "abundant"
                                  ELSE IF noisyRatio > 800 THEN "normal"
                                  ELSE IF noisyRatio > 500 THEN "scarce"
                                  ELSE "shortage"],
              government_signals |->
                [approval_vague |-> IF noisyApproval > Fx(65) THEN "popular"
                                    ELSE IF noisyApproval > Fx(40) THEN "mixed"
                                    ELSE IF noisyApproval > Fx(20)
                                    THEN "unpopular"
                                    ELSE "crisis",
                 active_laws |-> state.num["government.active_law_count"]],
              movement_id |-> player.visible_stats.movement_id,
              available_actions |-> actionsByRole(player.role),
              role_specific |-> roleSpecific(state, player, noiseSeed)]

-----------------------------------------------------------------------------
(* GAME SERVER DURABLE OBJECT (game-server.ts) *)

HasWorld(w) == w.phase # "null"

NoTokens == [p \in {} |-> ""]
NoCooldowns == [e \in {} |-> 0]

\* generatePlayerId and generateToken draw random strings: the n-th player
\* of a world gets the n-th id, and each id its own token
PlayerIds == <<"p1", "p2", "p3", "p4">>
generateToken(playerId) ==
    CASE playerId = "p1" -> "t1" [] playerId = "p2" -> "t2"
      [] playerId = "p3" -> "t3" [] OTHER -> "t4"
generatePlayerId(state) == PlayerIds[Len(state.players) + 1]

Roles == {"citizen", "business_owner", "politician"}

\* validActions[player.role] ?? []
validActions(role) ==
    CASE role = "citizen" ->
            {"work", "consume", "vote_law", "join_movement", "leave_movement"}
      [] role = "business_owner" ->
            {"produce", "set_wages", "lobby", "evade_taxes", "comply_taxes"}
      [] role = "politician" ->
            {"propose_law", "vote_law_politician", "allocate_budget",
             "publish_statement"}
      [] OTHER -> {}

\* "Rate limit: max 5 pending actions per player per tick"
MaxPendingActions == 5

\* of the body of a response the model keeps the player's view
NoResponse ==
    [status |-> 0, route |-> "none", playerId |-> Null, view |-> NoView]
jsonRes(status, route, playerId) ==
    [status |-> status, route |-> route, playerId |-> playerId,
     view |-> NoView]

NoSave == [pending |-> FALSE, after |-> "none", playerId |-> Null]

\* ensureLoaded: the three cached fields after it
ensureLoaded ==
    IF HasWorld(worldState)
    THEN [worldState |-> worldState, playerTokens |-> playerTokens,
          initialized |-> initialized]
    ELSE [worldState |-> storage.worldState,
          playerTokens |-> IF storage.hasTokens THEN storage.playerTokens
                           ELSE playerTokens,
          initialized |-> initialized \/ HasWorld(storage.worldState)]

\* an event may be delivered: no storage operation is being awaited
GateOpen == ~saving.pending

\* Date.now() + intervalMs, for setAlarm
nextAlarm(state, now) == now + state.num["meta.tick_interval_hours"]

\* the machine the stages of processTick read and write
Machine ==
    [state |-> worldState, run |-> tickRun, cooldowns |-> triggerCooldowns,
     preEvents |-> preEvents]


\* the suspended calls without the n-th
Without(seq, n) == SubSeq(seq, 1, n - 1) \o SubSeq(seq, n + 1, Len(seq))

\* fetch() for POST /initialize, up to await request.json().  An
\* /initialize is sent while no other one is being read.
FetchInitialize(body, maxInFlight) ==
    LET L == ensureLoaded
    IN  /\ GateOpen
        /\ Len(requests) < maxInFlight
        /\ \A n \in 1..Len(requests) : requests[n].route # "initialize"
        /\ worldState' = L.worldState
        /\ playerTokens' = L.playerTokens
        /\ initialized' = L.initialized
        /\ IF L.initialized
           THEN /\ response' = jsonRes(400, "initialize", Null)
                /\ UNCHANGED requests
           ELSE /\ requests' = Append(requests, [route |-> "initialize",
                                                 body |-> body])
                /\ response' = NoResponse
        /\ UNCHANGED <<storage, triggerCooldowns, tickRun, saving, alarmTime,
                       clock, tickCalls, preTick, preEvents, lastOutcome,
                       otherWorld>>

\* handleInitialize from the body on, to the first put of saveState
ResumeInitialize(n) ==
    /\ GateOpen
    /\ n \in 1..Len(requests)
    /\ requests[n].route = "initialize"
    /\ LET body == requests[n].body
           fresh == createInitialState(body.tickIntervalHours, clock)
           playerId == generatePlayerId(fresh)
           world == addPlayerToState(fresh, playerId, body.playerRole)
       IN  /\ worldState' = world
           /\ initialized' = TRUE
           /\ playerTokens' =
                [p \in DOMAIN playerTokens \cup {playerId} |->
                    IF p = playerId THEN generateToken(playerId)
                    ELSE playerTokens[p]]
           /\ storage' = [storage EXCEPT !.worldState = world]
           /\ saving' = [pending |-> TRUE, after |-> "initialize",
                         playerId |-> playerId]
    /\ requests' = Without(requests, n)
    /\ response' = NoResponse
    /\ UNCHANGED <<triggerCooldowns, tickRun, alarmTime, clock, tickCalls,
                   preTick, preEvents, lastOutcome, otherWorld>>

\* fetch() for POST /join, up to await request.json()
FetchJoin(body, maxInFlight) ==
    LET L == ensureLoaded
    IN  /\ GateOpen
        /\ Len(requests) < maxInFlight
        /\ worldState' = L.worldState
        /\ playerTokens' = L.playerTokens
        /\ initialized' = L.initialized
        /\ IF ~L.initialized \/ ~HasWorld(L.worldState)
           THEN /\ response' = jsonRes(400, "join", Null)
                /\ UNCHANGED requests
           ELSE /\ requests' = Append(requests, [route |-> "join",
                                                 body |-> body])
                /\ response' = NoResponse
        /\ UNCHANGED <<storage, triggerCooldowns, tickRun, saving, alarmTime,
                       clock, tickCalls, preTick, preEvents, lastOutcome,
                       otherWorld>>

\* a handleJoin that adds the player before it looks at the phase, and then
\* refuses
ResumeJoinAddsFirst(n, maxPlayers) ==
    /\ GateOpen
    /\ n \in 1..Len(requests)
    /\ requests[n].route = "join"
    /\ LET body == requests[n].body
           playerId == generatePlayerId(worldState)
           world == addPlayerToState(worldState, playerId, body.playerRole)
           refused ==
                IF body.playerRole = Null THEN 400
                ELSE IF body.playerRole \notin Roles THEN 400
                ELSE IF Len(worldState.players) >= maxPlayers THEN 403
                ELSE 0
       IN  IF refused # 0
           THEN /\ response' = jsonRes(refused, "join", Null)
                /\ UNCHANGED <<worldState, playerTokens, storage, saving>>
           ELSE IF worldState.phase # "accepting_actions"
           THEN /\ worldState' = world
                /\ response' = jsonRes(409, "join", Null)
                /\ UNCHANGED <<playerTokens, storage, saving>>
           ELSE /\ worldState' = world
                /\ playerTokens' =
                    [p \in DOMAIN playerTokens \cup {playerId} |->
                        IF p = playerId THEN generateToken(playerId)
                        ELSE playerTokens[p]]
                /\ storage' = [storage EXCEPT !.worldState = world]
                /\ saving' = [pending |-> TRUE, after |-> "join",
                              playerId |-> playerId]
                /\ response' = NoResponse
    /\ requests' = Without(requests, n)
    /\ UNCHANGED <<initialized, triggerCooldowns, tickRun, alarmTime, clock,
                   tickCalls, preTick, preEvents, lastOutcome, otherWorld>>

\* handleJoin from the body on, to its response or to the first put
ResumeJoin(n, maxPlayers) ==
    /\ GateOpen
    /\ n \in 1..Len(requests)
    /\ requests[n].route = "join"
    /\ LET body == requests[n].body
           playerId == generatePlayerId(worldState)
           world == addPlayerToState(worldState, playerId, body.playerRole)
           refused ==
                IF body.playerRole = Null THEN 400
                ELSE IF body.playerRole \notin Roles THEN 400
                ELSE IF Len(worldState.players) >= maxPlayers THEN 403
                ELSE IF worldState.phase # "accepting_actions" THEN 409
                ELSE 0
       IN  IF refused # 0
           THEN /\ response' = jsonRes(refused, "join", Null)
                /\ UNCHANGED <<worldState, playerTokens, storage, saving>>
           ELSE /\ worldState' = world
                /\ playerTokens' =
                    [p \in DOMAIN playerTokens \cup {playerId} |->
                        IF p = playerId THEN generateToken(playerId)
                        ELSE playerTokens[p]]
                /\ storage' = [storage EXCEPT !.worldState = world]
                /\ saving' = [pending |-> TRUE, after |-> "join",
                              playerId |-> playerId]
                /\ response' = NoResponse
    /\ requests' = Without(requests, n)
    /\ UNCHANGED <<initialized, triggerCooldowns, tickRun, alarmTime, clock,
                   tickCalls, preTick, preEvents, lastOutcome, otherWorld>>

\* the actions a world has accepted: those pending and those archived
RECURSIVE CountActions(_, _)
CountActions(history, n) ==
    IF n = 0 THEN 0
    ELSE Len(history[n].actions) + CountActions(history, n - 1)

RECURSIVE ActionsAccepted(_, _)
ActionsAccepted(state, i) ==
    IF i = 0 THEN 0
    ELSE Len(state.players[i].actions_pending)
         + CountActions(state.players[i].actions_history,
                        Len(state.players[i].actions_history))
         + ActionsAccepted(state, i - 1)

\* fetch() for POST /action, up to await request.json(): the phase is
\* checked before the body is read.  No more is sent once the world has
\* accepted maxActions actions.
FetchAction(body, maxInFlight, maxActions) ==
    LET L == ensureLoaded
    IN  /\ GateOpen
        /\ Len(requests) < maxInFlight
        /\ HasWorld(L.worldState) =>
                ActionsAccepted(L.worldState, Len(L.worldState.players))
                    < maxActions
        /\ worldState' = L.worldState
        /\ playerTokens' = L.playerTokens
        /\ initialized' = L.initialized
        /\ IF ~HasWorld(L.worldState)
           THEN /\ response' = jsonRes(400, "action", Null)
                /\ UNCHANGED requests
           ELSE IF L.worldState.phase # "accepting_actions"
           THEN /\ response' = jsonRes(409, "action", Null)
                /\ UNCHANGED requests
           ELSE /\ requests' = Append(requests, [route |-> "action",
                                                 body |-> body])
                /\ response' = NoResponse
        /\ UNCHANGED <<storage, triggerCooldowns, tickRun, saving, alarmTime,
                       clock, tickCalls, preTick, preEvents, lastOutcome,
                       otherWorld>>

\* the refusals of a handler whose rate limit compares with > where
\* handleAction compares with >=: it lets a sixth action through
actionRefusalAboveLimit(state, tokens, body) ==
    LET i == PlayerIndex(state, body.playerId)
        player == state.players[i]
    IN  IF body.playerId = Null \/ body.playerToken = Null
            \/ body.action.action_type = Null
        THEN 400
        ELSE IF body.playerId \notin DOMAIN tokens
                \/ tokens[body.playerId] # body.playerToken
        THEN 401
        ELSE IF i = 0 THEN 404
        ELSE IF ~player.alive THEN 404
        ELSE IF body.action.action_type \notin validActions(player.role)
        THEN 400
        ELSE IF Len(player.actions_pending) > MaxPendingActions THEN 429
        ELSE 0

\* the status handleAction refuses a body with once it has been read, 0
\* when it goes on to push the action
actionRefusal(state, tokens, body) ==
    LET i == PlayerIndex(state, body.playerId)
        player == state.players[i]
    IN  IF body.playerId = Null \/ body.playerToken = Null
            \/ body.action.action_type = Null
        THEN 400
        ELSE IF body.playerId \notin DOMAIN tokens
                \/ tokens[body.playerId] # body.playerToken
        THEN 401
        ELSE IF i = 0 THEN 404
        ELSE IF ~player.alive THEN 404
        ELSE IF body.action.action_type \notin validActions(player.role)
        THEN 400
        ELSE IF Len(player.actions_pending) >= MaxPendingActions THEN 429
        ELSE 0

\* handleAction from the body on, to its response or to the first put
ResumeAction(n) ==
    /\ GateOpen
    /\ n \in 1..Len(requests)
    /\ requests[n].route = "action"
    /\ LET body == requests[n].body
           refused == actionRefusal(worldState, playerTokens, body)
           i == PlayerIndex(worldState, body.playerId)
           world == [worldState EXCEPT !.players[i].actions_pending =
                        Append(@, [action_type |-> body.action.action_type,
                                   submitted_at |-> clock,
                                   params |-> body.action.params])]
       IN  IF refused # 0
           THEN /\ response' = jsonRes(refused, "action", body.playerId)
                /\ UNCHANGED <<worldState, storage, saving>>
           ELSE /\ worldState' = world
                /\ storage' = [storage EXCEPT !.worldState = world]
                /\ saving' = [pending |-> TRUE, after |-> "action",
                              playerId |-> body.playerId]
                /\ response' = NoResponse
    /\ requests' = Without(requests, n)
    /\ UNCHANGED <<playerTokens, initialized, triggerCooldowns, tickRun,
                   alarmTime, clock, tickCalls, preTick, preEvents,
                   lastOutcome, otherWorld>>

\* this.worldState.meta.seed * 1000 + this.worldState.meta.tick
noiseSeedOf(state) ==
    state.num["meta.seed"] + state.num["meta.tick"] \div Scale

\* the status handleView answers a query with
viewStatus(state, tokens, query) ==
    IF ~HasWorld(state) THEN 400
    ELSE IF query.playerId = Null \/ query.token = Null THEN 400
    ELSE IF query.playerId \notin DOMAIN tokens
            \/ tokens[query.playerId] # query.token
    THEN 401
    ELSE IF generatePlayerView(state, query.playerId,
                               noiseSeedOf(state)).isNull
    THEN 404
    ELSE 200

\* what handleView answers: the view under status 200, an error otherwise
viewResponse(state, status, query) ==
    IF status # 200 THEN jsonRes(status, "view", query.playerId)
    ELSE [jsonRes(200, "view", query.playerId) EXCEPT
            !.view = generatePlayerView(state, query.playerId,
                                        noiseSeedOf(state))]

\* fetch() for GET /view: handleView awaits nothing
FetchView(query) ==
    /\ GateOpen
    /\ worldState' = ensureLoaded.worldState
    /\ playerTokens' = ensureLoaded.playerTokens
    /\ initialized' = ensureLoaded.initialized
    /\ response' = viewResponse(ensureLoaded.worldState,
                                viewStatus(ensureLoaded.worldState,
                                           ensureLoaded.playerTokens, query),
                                query)
    /\ UNCHANGED <<storage, triggerCooldowns, tickRun, requests, saving,
                   alarmTime, clock, tickCalls, preTick, preEvents,
                   lastOutcome, otherWorld>>

\* saveState from its second put on, and what the caller does after it:
\* runTick returns to alarm(), which sets the next alarm; handleInitialize
\* sets the first alarm and answers; handleJoin and handleAction answer
SaveFinish ==
    /\ saving.pending
    /\ storage' = [storage EXCEPT !.playerTokens = playerTokens,
                                  !.hasTokens = TRUE]
    /\ saving' = NoSave
    /\ alarmTime' = IF saving.after \in {"tick", "initialize"}
                    THEN nextAlarm(worldState, clock) ELSE alarmTime
    /\ response' = IF saving.after = "tick" THEN NoResponse
                   ELSE jsonRes(200, saving.after, saving.playerId)
    /\ UNCHANGED <<worldState, playerTokens, initialized, triggerCooldowns,
                   tickRun, requests, clock, tickCalls, preTick, preEvents,
                   lastOutcome, otherWorld>>


\* what alarm() does when processTick has thrown: runTick's catch, then
\* scheduleNextTick.  The world stays as the call left it.
\* alarm() without the scheduling that follows its catch
TickThrewNoAlarm(m) ==
    /\ worldState' = m.state
    /\ tickRun' = IdleRun
    /\ lastOutcome' = "threw"
    /\ alarmTime' = NoTick

TickThrew(m) ==
    /\ worldState' = m.state
    /\ tickRun' = IdleRun
    /\ lastOutcome' = "threw"
    /\ alarmTime' = nextAlarm(m.state, clock')

\* processTick goes on to its next await with the machine m
TickGoesOn(m) ==
    /\ worldState' = m.state
    /\ tickRun' = m.run

\* processTick has run to its first await, or thrown before it
TickBegan(m) ==
    IF m.run.pc = "threw"
    THEN TickThrew(m)
    ELSE /\ TickGoesOn(m)
         /\ alarmTime' = NoTick
         /\ lastOutcome' = "running"

\* alarm(): ensureLoaded, then runTick into processTick, to its first await
AlarmFire(maxTicks) ==
    /\ GateOpen
    /\ alarmTime # NoTick
    /\ tickRun.pc = "idle"
    /\ tickCalls < maxTicks
    /\ clock' = Max(clock, alarmTime)
    /\ playerTokens' = ensureLoaded.playerTokens
    /\ initialized' = ensureLoaded.initialized
    /\ IF ~HasWorld(ensureLoaded.worldState)
       THEN /\ alarmTime' = NoTick
            /\ UNCHANGED <<worldState, tickRun, tickCalls, preTick,
                           lastOutcome>>
       ELSE /\ tickCalls' = tickCalls + 1
            /\ preTick' = ensureLoaded.worldState
            /\ TickBegan(tickBegin(ensureLoaded.worldState, triggerCooldowns))
    /\ response' = NoResponse
    /\ UNCHANGED <<storage, triggerCooldowns, requests, saving, preEvents,
                   otherWorld>>

\* processTick resumes with the state analyst's answer
TickAnalyst(out) ==
    /\ GateOpen
    /\ tickRun.pc = "analyst"
    /\ TickGoesOn(afterAnalyst(Machine, out))
    /\ response' = NoResponse
    /\ UNCHANGED <<playerTokens, initialized, storage, triggerCooldowns,
                   requests, saving, alarmTime, clock, tickCalls, preTick,
                   preEvents, lastOutcome, otherWorld>>

\* processTick resumes with the judiciary's answer about one new law
TickJudiciary(out) ==
    /\ GateOpen
    /\ tickRun.pc = "judiciary"
    /\ TickGoesOn(afterJudiciary(Machine, out))
    /\ response' = NoResponse
    /\ UNCHANGED <<playerTokens, initialized, storage, triggerCooldowns,
                   requests, saving, alarmTime, clock, tickCalls, preTick,
                   preEvents, lastOutcome, otherWorld>>

\* processTick resumes with the media advisor's answer
TickMedia(out) ==
    /\ GateOpen
    /\ tickRun.pc = "media"
    /\ TickGoesOn(afterMedia(Machine, out))
    /\ response' = NoResponse
    /\ UNCHANGED <<playerTokens, initialized, storage, triggerCooldowns,
                   requests, saving, alarmTime, clock, tickCalls, preTick,
                   preEvents, lastOutcome, otherWorld>>

\* processTick resumes with the political reaction advisor's answer
TickReaction(out) ==
    /\ GateOpen
    /\ tickRun.pc = "reaction"
    /\ TickGoesOn(afterReaction(Machine, out))
    /\ response' = NoResponse
    /\ UNCHANGED <<playerTokens, initialized, storage, triggerCooldowns,
                   requests, saving, alarmTime, clock, tickCalls, preTick,
                   preEvents, lastOutcome, otherWorld>>

\* PHASE 6 has run: processTick goes on to the historian, or has thrown
EventsDone(m) ==
    /\ triggerCooldowns' = m.cooldowns
    /\ preEvents' = m.preEvents
    /\ IF m.run.pc = "threw"
       THEN TickThrew(m)
       ELSE /\ TickGoesOn(m)
            /\ UNCHANGED <<alarmTime, lastOutcome, otherWorld>>

\* processTick resumes with the crisis advisor's answer and runs PHASE 6
TickCrisis(out) ==
    /\ GateOpen
    /\ tickRun.pc = "crisis"
    /\ clock' = clock
    /\ EventsDone(afterCrisis(Machine, out))
    /\ response' = NoResponse
    /\ UNCHANGED <<playerTokens, initialized, storage, requests, saving,
                   tickCalls, preTick, otherWorld>>

\* processTick has returned m.state: runTick stores it and begins saveState
TickReturned(m) ==
    /\ worldState' = m.state
    /\ storage' = [storage EXCEPT !.worldState = m.state]
    /\ tickRun' = IdleRun
    /\ lastOutcome' = "finalized"
    /\ saving' = [pending |-> TRUE, after |-> "tick", playerId |-> Null]

\* processTick resumes with the historian's answer and finalizes, latency
\* hours after the alarm
TickHistorian(out, latency) ==
    /\ GateOpen
    /\ tickRun.pc = "historian"
    /\ clock' = clock + Fx(latency)
    /\ TickReturned(afterHistorian(Machine, out, clock'))
    /\ response' = NoResponse
    /\ UNCHANGED <<playerTokens, initialized, triggerCooldowns, requests,
                   alarmTime, tickCalls, preTick, preEvents, otherWorld>>

\* the object is dropped from memory while nothing is in flight; the module
\* state of core-engine goes with it when the isolate is torn down too
Evict(isolate) ==
    /\ GateOpen
    /\ tickRun.pc = "idle"
    /\ Len(requests) = 0
    /\ HasWorld(worldState)
    /\ worldState' = NoWorld
    /\ playerTokens' = NoTokens
    /\ initialized' = FALSE
    /\ triggerCooldowns' = IF isolate THEN NoCooldowns
                           ELSE triggerCooldowns
    /\ response' = NoResponse
    /\ UNCHANGED <<storage, tickRun, requests, saving, alarmTime, clock,
                   tickCalls, preTick, preEvents, lastOutcome, otherWorld>>

\* the object's process stops between the two puts of saveState: the first
\* put is in storage, the second never happens, and memory is gone with
\* whatever was in flight
Crash ==
    /\ saving.pending
    /\ worldState' = NoWorld
    /\ playerTokens' = NoTokens
    /\ initialized' = FALSE
    /\ triggerCooldowns' = NoCooldowns
    /\ tickRun' = IdleRun
    /\ requests' = <<>>
    /\ response' = NoResponse
    /\ saving' = NoSave
    /\ UNCHANGED <<storage, alarmTime, clock, tickCalls, preTick, preEvents,
                   lastOutcome, otherWorld>>

-----------------------------------------------------------------------------
(* THE GAME SERVER UNDER REQUESTS AND ALARMS *)

MaxInFlight == 1
MaxPlayers == 2
MaxTicks == 3
MaxLatency == 0
MaxActions == 2

\* the bodies of POST /initialize: maxPlayers is MaxPlayers in each
InitializeBodies ==
    {[playerRole |-> "politician", tickIntervalHours |-> 24]}

\* the bodies of POST /join
JoinBodies == {[playerRole |-> "citizen"], [playerRole |-> "wizard"]}

\* the id of the first law proposed in a world
FirstLawId == seededUUID(Fx(42), 0)
\* the bodies of POST /action: the first player, a politician, proposes a
\* law or votes for the first law; the second, a citizen, votes for it; and
\* one body carries a token that is not its player's
ActionBody(playerId, playerToken, action_type, params) ==
    [playerId |-> playerId, playerToken |-> playerToken,
     action |-> [action_type |-> action_type, params |-> params]]

ActionBodies ==
    {ActionBody("p1", "t1", "propose_law", [NoParams EXCEPT !.text = "a law"]),
     ActionBody("p1", "t1", "vote_law_politician",
                [NoParams EXCEPT !.law_id = FirstLawId, !.vote = "for"]),
     ActionBody("p2", "t2", "vote_law",
                [NoParams EXCEPT !.law_id = FirstLawId, !.vote = "for"]),
     ActionBody("p1", "t0", "work", NoParams)}

\* what the language model gives each advisor's wrapper
AnalystAnswers == {NullOut}
JudiciaryAnswers ==
    {NullOut,
     JudiciaryOut("raises the tax rate", TRUE,
                  <<Mod("economy.tax_rate", "add", Fx(1))>>)}
MediaAnswers == {NullOut}
ReactionAnswers == {NullOut}
CrisisAnswers == {NullOut, CrisisOut("disaster", 3, <<NullMod>>, 0)}
HistorianAnswers == {NullOut}

Init ==
    /\ worldState = NoWorld
    /\ playerTokens = NoTokens
    /\ initialized = FALSE
    /\ storage = [worldState |-> NoWorld, playerTokens |-> NoTokens,
                  hasTokens |-> FALSE]
    /\ triggerCooldowns = NoCooldowns
    /\ tickRun = IdleRun
    /\ requests = <<>>
    /\ response = NoResponse
    /\ saving = NoSave
    /\ alarmTime = NoTick
    /\ clock = 0
    /\ tickCalls = 0
    /\ preTick = NoWorld
    /\ preEvents = NoWorld
    /\ lastOutcome = "none"
    /\ otherWorld = NoWorld

Next ==
    \/ \E body \in InitializeBodies : FetchInitialize(body, MaxInFlight)
    \/ \E n \in 1..MaxInFlight : ResumeInitialize(n)
    \/ \E body \in JoinBodies : FetchJoin(body, MaxInFlight)
    \/ \E n \in 1..MaxInFlight : ResumeJoin(n, MaxPlayers)
    \/ \E body \in ActionBodies : FetchAction(body, MaxInFlight, MaxActions)
    \/ \E n \in 1..MaxInFlight : ResumeAction(n)
    \/ SaveFinish
    \/ AlarmFire(MaxTicks)
    \/ \E llm \in AnalystAnswers : TickAnalyst(stateAnalyst(llm, worldState))
    \/ \E llm \in JudiciaryAnswers : TickJudiciary(judiciary(llm, worldState))
    \/ \E llm \in MediaAnswers : TickMedia(media(llm, worldState))
    \/ \E llm \in ReactionAnswers :
            TickReaction(politicalReaction(llm, worldState))
    \/ \E llm \in CrisisAnswers : TickCrisis(crisis(llm, worldState))
    \/ \E llm \in HistorianAnswers, latency \in 0..MaxLatency :
            TickHistorian(historian(llm, worldState), latency)
    \/ \E isolate \in BOOLEAN : Evict(isolate)

Spec == Init /\ [][Next]_vars

-----------------------------------------------------------------------------
(* THE RATE LIMIT OF POST /action *)

\* One player, a citizen, who works; no law is ever proposed, so the
\* judiciary is never called.
LimitActions == 6
LimitTicks == 1

LimitInitializeBodies ==
    {[playerRole |-> "citizen", tickIntervalHours |-> 24]}

LimitActionBodies ==
    {ActionBody("p1", "t1", "work", NoParams),
     ActionBody("p1", "t0", "work", NoParams),
     ActionBody("p1", "t1", "produce", NoParams)}

NextLimit ==
    \/ \E body \in LimitInitializeBodies : FetchInitialize(body, MaxInFlight)
    \/ \E n \in 1..MaxInFlight : ResumeInitialize(n)
    \/ \E body \in LimitActionBodies :
            FetchAction(body, MaxInFlight, LimitActions)
    \/ \E n \in 1..MaxInFlight : ResumeAction(n)
    \/ SaveFinish
    \/ AlarmFire(LimitTicks)
    \/ TickAnalyst(stateAnalyst(NullOut, worldState))
    \/ TickMedia(media(NullOut, worldState))
    \/ TickReaction(politicalReaction(NullOut, worldState))
    \/ TickCrisis(crisis(NullOut, worldState))
    \/ TickHistorian(historian(NullOut, worldState), 0)

SpecLimit == Init /\ [][NextLimit]_vars

-----------------------------------------------------------------------------
(* THE HANDLERS AND THEIR USER ERRORS *)

\* The game of the rate limit, which a second player may join, whose views
\* are asked for and whose object may be evicted, or stop in the middle of
\* a save.

\* the queries of GET /view: the first player's, with the player's token,
\* with another and with none
ViewQueries ==
    {[playerId |-> "p1", token |-> "t1"], [playerId |-> "p1", token |-> "t0"],
     [playerId |-> "p1", token |-> Null]}

NextErrors ==
    \/ \E body \in LimitInitializeBodies : FetchInitialize(body, MaxInFlight)
    \/ \E n \in 1..MaxInFlight : ResumeInitialize(n)
    \/ \E body \in JoinBodies : FetchJoin(body, MaxInFlight)
    \/ \E n \in 1..MaxInFlight : ResumeJoin(n, MaxPlayers)
    \/ \E body \in LimitActionBodies :
            FetchAction(body, MaxInFlight, LimitActions)
    \/ \E n \in 1..MaxInFlight : ResumeAction(n)
    \/ \E query \in ViewQueries : FetchView(query)
    \/ SaveFinish
    \/ AlarmFire(LimitTicks)
    \/ TickAnalyst(stateAnalyst(NullOut, worldState))
    \/ TickMedia(media(NullOut, worldState))
    \/ TickReaction(politicalReaction(NullOut, worldState))
    \/ TickCrisis(crisis(NullOut, worldState))
    \/ TickHistorian(historian(NullOut, worldState), 0)
    \/ \E isolate \in BOOLEAN : Evict(isolate)
    \/ Crash

SpecErrors == Init /\ [][NextErrors]_vars

-----------------------------------------------------------------------------
(* THE WATCHDOG OVER MANY TICKS *)

\* The game of the rate limit left to its alarms, with failing advisors:
\* the reserves fall by the deficit of every tick and are below zero from
\* the fourth tick on.  The object may be evicted between ticks, and an
\* alarm or a request for the player's view loads it again.
WatchdogTicks == 5

NextWatchdog ==
    \/ \E body \in LimitInitializeBodies : FetchInitialize(body, MaxInFlight)
    \/ \E n \in 1..MaxInFlight : ResumeInitialize(n)
    \/ \E query \in ViewQueries : FetchView(query)
    \/ SaveFinish
    \/ AlarmFire(WatchdogTicks)
    \/ TickAnalyst(stateAnalyst(NullOut, worldState))
    \/ TickMedia(media(NullOut, worldState))
    \/ TickReaction(politicalReaction(NullOut, worldState))
    \/ TickCrisis(crisis(NullOut, worldState))
    \/ TickHistorian(historian(NullOut, worldState), 0)
    \/ \E isolate \in BOOLEAN : Evict(isolate)

SpecWatchdog == Init /\ [][NextWatchdog]_vars

-----------------------------------------------------------------------------
(* THE HISTORY OF ACCEPTED ACTIONS *)

\* The game of the rate limit over two ticks whose advisors fail; a tick
\* may take an hour from its alarm to its finalize step.
HistoryActions == 2
HistoryTicks == 2
HistoryLatency == 1

NextHistory ==
    \/ \E body \in LimitInitializeBodies : FetchInitialize(body, MaxInFlight)
    \/ \E n \in 1..MaxInFlight : ResumeInitialize(n)
    \/ \E body \in LimitActionBodies :
            FetchAction(body, MaxInFlight, HistoryActions)
    \/ \E n \in 1..MaxInFlight : ResumeAction(n)
    \/ SaveFinish
    \/ AlarmFire(HistoryTicks)
    \/ TickAnalyst(stateAnalyst(NullOut, worldState))
    \/ TickMedia(media(NullOut, worldState))
    \/ TickReaction(politicalReaction(NullOut, worldState))
    \/ TickCrisis(crisis(NullOut, worldState))
    \/ \E latency \in 0..HistoryLatency :
            TickHistorian(historian(NullOut, worldState), latency)

SpecHistory == Init /\ [][NextHistory]_vars

-----------------------------------------------------------------------------
(* processTick UNDER ANY ADVISORS *)

\* processTick is called with an AISystemRegistry of the caller's choice on
\* the world in worldState; triggerCooldowns is the map of the process.

\* the call has reached its next await, returned or thrown
EngineSettles(m) ==
    /\ worldState' = m.state
    /\ triggerCooldowns' = m.cooldowns
    /\ tickRun' = IF m.run.pc \in {"threw", "done"} THEN IdleRun ELSE m.run
    /\ lastOutcome' = CASE m.run.pc = "threw" -> "threw"
                        [] m.run.pc = "done" -> "finalized"
                        [] OTHER -> "running"

EngineCall(maxTicks) ==
    /\ tickRun.pc = "idle"
    /\ tickCalls < maxTicks
    /\ tickCalls' = tickCalls + 1
    /\ preTick' = worldState
    /\ EngineSettles(tickBegin(worldState, triggerCooldowns))
    /\ UNCHANGED <<playerTokens, initialized, storage, requests, response,
                   saving, alarmTime, clock, preEvents, otherWorld>>

EngineAnalyst(out) ==
    /\ tickRun.pc = "analyst"
    /\ EngineSettles(afterAnalyst(Machine, out))
    /\ UNCHANGED <<playerTokens, initialized, storage, requests, response,
                   saving, alarmTime, clock, tickCalls, preTick, preEvents,
                   otherWorld>>

EngineJudiciary(out) ==
    /\ tickRun.pc = "judiciary"
    /\ EngineSettles(afterJudiciary(Machine, out))
    /\ UNCHANGED <<playerTokens, initialized, storage, requests, response,
                   saving, alarmTime, clock, tickCalls, preTick, preEvents,
                   otherWorld>>

EngineMedia(out) ==
    /\ tickRun.pc = "media"
    /\ EngineSettles(afterMedia(Machine, out))
    /\ UNCHANGED <<playerTokens, initialized, storage, requests, response,
                   saving, alarmTime, clock, tickCalls, preTick, preEvents,
                   otherWorld>>

EngineReaction(out) ==
    /\ tickRun.pc = "reaction"
    /\ EngineSettles(afterReaction(Machine, out))
    /\ UNCHANGED <<playerTokens, initialized, storage, requests, response,
                   saving, alarmTime, clock, tickCalls, preTick, preEvents,
                   otherWorld>>

\* the crisis advisor answers and PHASE 6 runs
EngineEvents(m) ==
    /\ EngineSettles(m)
    /\ preEvents' = m.preEvents

EngineCrisis(out) ==
    /\ tickRun.pc = "crisis"
    /\ EngineEvents(afterCrisis(Machine, out))
    /\ UNCHANGED <<playerTokens, initialized, storage, requests, response,
                   saving, alarmTime, clock, tickCalls, preTick, otherWorld>>

\* the historian answers and the call finalizes, hours after the last one
EngineHistorian(out, hours) ==
    /\ tickRun.pc = "historian"
    /\ clock' = clock + Fx(hours)
    /\ EngineSettles(afterHistorian(Machine, out, clock'))
    /\ UNCHANGED <<playerTokens, initialized, storage, requests, response,
                   saving, alarmTime, tickCalls, preTick, preEvents,
                   otherWorld>>

EngineTicks == 2

\* every advisor resolves to null, and so does the judiciary each time
NullAi ==
    [stateAnalyst |-> NullOut, judiciary |-> <<NullOut, NullOut>>,
     media |-> NullOut, politicalReaction |-> NullOut, crisis |-> NullOut,
     historian |-> NullOut]

\* the world with the actions pending for the player with this id
WithPending(state, playerId, actions) ==
    [state EXCEPT !.players[PlayerIndex(state, playerId)].actions_pending =
        [n \in 1..Len(actions) |->
            [action_type |-> actions[n].action_type, submitted_at |-> 0,
             params |-> actions[n].params]]]

Action(action_type, params) ==
    [action_type |-> action_type, params |-> params]

\* a new game joined by a politician, a citizen and a business owner
EngineFresh ==
    addPlayerToState(
        addPlayerToState(
            addPlayerToState(createInitialState(24, 0), "p1", "politician"),
            "p2", "citizen"),
        "p3", "business_owner")

\* the game two ticks after the politician proposed a law: the law is being
\* voted on, and the politician has voted for it
EngineVoting ==
    WithPending(
        processTick(
            processTick(
                WithPending(EngineFresh, "p1",
                    <<Action("propose_law",
                             [NoParams EXCEPT !.text = "a law"])>>),
                NoCooldowns, NullAi, Fx(24)).state,
            NoCooldowns, NullAi, Fx(48)).state,
        "p1",
        <<Action("vote_law_politician",
                 [NoParams EXCEPT !.law_id = FirstLawId, !.vote = "for"])>>)

\* the ids the first tick of the new game gives the movements it founds
LeagueId == seededUUID(EngineFresh.num["meta.seed"], 7000)
FrontId == seededUUID(EngineFresh.num["meta.seed"], 7001)

\* the new game one tick after a political reaction that founded two
\* movements, the citizen having asked to join the one and then the other
EngineJoining ==
    WithPending(
        processTick(EngineFresh, NoCooldowns,
                    [NullAi EXCEPT !.politicalReaction =
                        ReactionOut([k \in {"overall"} |-> 0], 0,
                            <<MovementChange("create", "The League",
                                             "reformist", NoId, NotANumber),
                              MovementChange("create", "The Front",
                                             "radical", NoId, NotANumber)>>)],
                    Fx(24)).state,
        "p2",
        <<Action("join_movement",
                 [NoParams EXCEPT !.movement_id = LeagueId]),
          Action("join_movement",
                 [NoParams EXCEPT !.movement_id = FrontId])>>)

\* the worlds processTick is first called on, and the hour it is then
EngineStarts ==
    {[world |-> EngineFresh, clock |-> 0],
     [world |-> WithPending(
                    WithPending(EngineFresh, "p2",
                                <<Action("work", NoParams)>>),
                    "p3", <<Action("produce", NoParams)>>),
      clock |-> 0],
     [world |-> WithPending(EngineFresh, "p1",
                    <<Action("propose_law",
                             [NoParams EXCEPT !.text = "a law"])>>),
      clock |-> 0],
     [world |-> EngineVoting, clock |-> Fx(48)],
     [world |-> EngineJoining, clock |-> Fx(24)]}

\* what the advisors answer
EngineAnalystOuts == {Throws, AnalystOut(TRUE)}

\* a batch that writes one variable twice and then names a path that does
\* not exist
TwiceThenUnknown ==
    <<Mod("society.stability", "add", Fx(5)),
      Mod("society.stability", "add", Fx(5)),
      Mod("society.mood", "set", Fx(1))>>

EngineJudiciaryOuts ==
    {Throws,
     JudiciaryOut("raises the tax rate", TRUE,
                  <<Mod("economy.tax_rate", "add", Fx(1))>>),
     JudiciaryOut("steadies the nation", TRUE, TwiceThenUnknown)}

EngineMediaOuts == {NullOut, MediaOut(<<"a headline">>, <<>>)}

EngineReactionOuts ==
    {Throws,
     ReactionOut([k \in {"overall"} |-> Fx(2)], 500,
                 <<MovementChange("create", "The League", "reformist", NoId,
                                  NotANumber)>>),
     ReactionOut([k \in {"overall"} |-> 0], 0,
                 <<MovementChange("dissolve", "", "", FrontId,
                                  NotANumber)>>)}

EngineCrisisOuts ==
    {NullOut,
     CrisisOut("economic_crisis", 3,
               <<Mod("economy.gdp", "set", Fx(100000))>>, 0),
     CrisisOut("protest", 3, TwiceThenUnknown, 0),
     CrisisOut("scandal", 3, <<NullMod>>, 0),
     CrisisOut("scandal", 2, <<Mod("laws.0.votes.for", "add", Fx(1))>>, 0),
     CrisisOut("budget_crisis", 2,
               <<Mod("government.budget_allocation.welfare", "add", 500)>>,
               0),
     CrisisOut("scandal", 1, <<Mod("tick_log.0.tick", "add", Fx(5))>>, 0),
     CrisisOut("disaster", 3, <<Mod("meta.tick", "add", Fx(5)),
                                Mod("meta.seed", "multiply", Fx(2))>>,
               Fx(2))}

EngineHistorianOuts ==
    {NullOut, HistorianOut("The Long Decline", [p \in {"p1"} |-> "schemer"])}

\* the hours between two calls
EngineHours == 24

InitEngine ==
    /\ \E start \in EngineStarts :
            worldState = start.world /\ clock = start.clock
    /\ playerTokens = NoTokens
    /\ initialized = FALSE
    /\ storage = [worldState |-> NoWorld, playerTokens |-> NoTokens,
                  hasTokens |-> FALSE]
    /\ triggerCooldowns = NoCooldowns
    /\ tickRun = IdleRun
    /\ requests = <<>>
    /\ response = NoResponse
    /\ saving = NoSave
    /\ alarmTime = NoTick
    /\ tickCalls = 0
    /\ preTick = NoWorld
    /\ preEvents = NoWorld
    /\ lastOutcome = "none"
    /\ otherWorld = NoWorld

NextEngine ==
    \/ EngineCall(EngineTicks)
    \/ \E out \in EngineAnalystOuts : EngineAnalyst(out)
    \/ \E out \in EngineJudiciaryOuts : EngineJudiciary(out)
    \/ \E out \in EngineMediaOuts : EngineMedia(out)
    \/ \E out \in EngineReactionOuts : EngineReaction(out)
    \/ \E out \in EngineCrisisOuts : EngineCrisis(out)
    \/ \E out \in EngineHistorianOuts : EngineHistorian(out, EngineHours)

SpecEngine == InitEngine /\ [][NextEngine]_vars

-----------------------------------------------------------------------------
(* processTick UNDER THE REGISTRY WHEN EVERY MODEL CALL FAILS *)

\* The advisors are those of buildAIRegistry and every call to the language
\* model comes back with nothing, so each wrapper hands its fallback on.
FallbackTicks == 4

\* the new game one tick after a political reaction that took 44.5 points
\* off every approval value: two of them are within one point of zero
EngineUnpopular ==
    processTick(EngineFresh, NoCooldowns,
                [NullAi EXCEPT !.politicalReaction =
                    ReactionOut([k \in DOMAIN ApprovalPath |-> -44500], 0,
                                <<>>)],
                Fx(24)).state

FallbackStarts ==
    EngineStarts \cup {[world |-> EngineUnpopular, clock |-> Fx(24)]}

InitFallback ==
    /\ \E start \in FallbackStarts :
            worldState = start.world /\ clock = start.clock
    /\ playerTokens = NoTokens
    /\ initialized = FALSE
    /\ storage = [worldState |-> NoWorld, playerTokens |-> NoTokens,
                  hasTokens |-> FALSE]
    /\ triggerCooldowns = NoCooldowns
    /\ tickRun = IdleRun
    /\ requests = <<>>
    /\ response = NoResponse
    /\ saving = NoSave
    /\ alarmTime = NoTick
    /\ tickCalls = 0
    /\ preTick = NoWorld
    /\ preEvents = NoWorld
    /\ lastOutcome = "none"
    /\ otherWorld = NoWorld

NextFallback ==
    \/ EngineCall(FallbackTicks)
    \/ EngineAnalyst(stateAnalyst(NullOut, worldState))
    \/ EngineJudiciary(judiciary(NullOut, worldState))
    \/ EngineMedia(media(NullOut, worldState))
    \/ EngineReaction(politicalReaction(NullOut, worldState))
    \/ EngineCrisis(crisis(NullOut, worldState))
    \/ EngineHistorian(historian(NullOut, worldState), EngineHours)

SpecFallback == InitFallback /\ [][NextFallback]_vars

-----------------------------------------------------------------------------
(* THE VIEWS OF A GAME IN PROGRESS *)

\* The server holds one of the worlds above, its three players have their
\* tokens, and their views are asked for before, between and during the
\* ticks, whose advisors fall back.
ViewTicks == 2

EngineTokens ==
    [playerId \in {"p1", "p2", "p3"} |-> generateToken(playerId)]

PlayerQueries ==
    {[playerId |-> playerId, token |-> generateToken(playerId)] :
        playerId \in {"p1", "p2", "p3"}}

InitView ==
    /\ \E start \in EngineStarts :
            worldState = start.world /\ clock = start.clock
    /\ playerTokens = EngineTokens
    /\ initialized = TRUE
    /\ storage = [worldState |-> NoWorld, playerTokens |-> NoTokens,
                  hasTokens |-> FALSE]
    /\ triggerCooldowns = NoCooldowns
    /\ tickRun = IdleRun
    /\ requests = <<>>
    /\ response = NoResponse
    /\ saving = NoSave
    /\ alarmTime = NoTick
    /\ tickCalls = 0
    /\ preTick = NoWorld
    /\ preEvents = NoWorld
    /\ lastOutcome = "none"
    /\ otherWorld = NoWorld

NextView ==
    \/ \E query \in PlayerQueries : FetchView(query)
    \/ EngineCall(ViewTicks)
    \/ EngineAnalyst(stateAnalyst(NullOut, worldState))
    \/ EngineJudiciary(judiciary(NullOut, worldState))
    \/ EngineMedia(media(NullOut, worldState))
    \/ EngineReaction(politicalReaction(NullOut, worldState))
    \/ EngineCrisis(crisis(NullOut, worldState))
    \/ EngineHistorian(historian(NullOut, worldState), EngineHours)

SpecView == InitView /\ [][NextView]_vars

-----------------------------------------------------------------------------
(* THE LAWS OF A GAME AND THEIR INTERPRETATIONS *)

\* processTick is called on a game whose first law is being voted on and
\* whose society has one movement; the votes of the tick are pending.
LawsTicks == 2

\* the new game two ticks after the politician proposed a law, a political
\* reaction having founded a movement in the first of them
LawsBase ==
    processTick(
        processTick(
            WithPending(EngineFresh, "p1",
                <<Action("propose_law", [NoParams EXCEPT !.text = "a law"])>>),
            NoCooldowns,
            [NullAi EXCEPT !.politicalReaction =
                ReactionOut([k \in {"overall"} |-> 0], 0,
                    <<MovementChange("create", "The League", "reformist",
                                     NoId, NotANumber)>>)],
            Fx(24)).state,
        NoCooldowns, NullAi, Fx(48)).state

Vote(action_type, vote) ==
    Action(action_type, [NoParams EXCEPT !.law_id = FirstLawId, !.vote = vote])

\* what the politician (weight 3) and the citizen (weight 1) have pending
PoliticianVotes ==
    {<<>>, <<Vote("vote_law_politician", "for")>>,
     <<Vote("vote_law_politician", "against")>>}

CitizenVotes ==
    {<<>>, <<Vote("vote_law", "for")>>, <<Vote("vote_law", "against")>>,
     <<Vote("vote_law", "abstain")>>,
     <<Vote("vote_law", "abstain"), Vote("vote_law", "abstain")>>,
     <<Vote("vote_law", "for"), Vote("vote_law", "against")>>}

\* a batch whose second modifier names a path that exists while the society
\* has a movement
TaxThenMovement ==
    <<Mod("economy.tax_rate", "add", Fx(1)),
      Mod("movements.0.strength", "add", 100)>>

LawsJudiciaryOuts ==
    {Throws,
     JudiciaryOut("raises the tax rate", TRUE,
                  <<Mod("economy.tax_rate", "add", Fx(1))>>),
     JudiciaryOut("taxes for the League", TRUE, TaxThenMovement),
     JudiciaryOut("steadies the nation", TRUE, TwiceThenUnknown),
     JudiciaryOut("counts as two laws", TRUE,
                  <<Mod("government.active_law_count", "add", Fx(1))>>)}

LawsReactionOuts ==
    {ReactionOut([k \in {"overall"} |-> 0], 0, <<>>),
     ReactionOut([k \in {"overall"} |-> 0], 0,
                 <<MovementChange("dissolve", "", "", LeagueId, NotANumber)>>)}

InitLaws ==
    /\ \E p \in PoliticianVotes, c \in CitizenVotes :
            worldState = WithPending(WithPending(LawsBase, "p1", p), "p2", c)
    /\ clock = Fx(48)
    /\ playerTokens = NoTokens
    /\ initialized = FALSE
    /\ storage = [worldState |-> NoWorld, playerTokens |-> NoTokens,
                  hasTokens |-> FALSE]
    /\ triggerCooldowns = NoCooldowns
    /\ tickRun = IdleRun
    /\ requests = <<>>
    /\ response = NoResponse
    /\ saving = NoSave
    /\ alarmTime = NoTick
    /\ tickCalls = 0
    /\ preTick = NoWorld
    /\ preEvents = NoWorld
    /\ lastOutcome = "none"
    /\ otherWorld = NoWorld

NextLaws ==
    \/ EngineCall(LawsTicks)
    \/ EngineAnalyst(AnalystOut(TRUE))
    \/ \E out \in LawsJudiciaryOuts : EngineJudiciary(out)
    \/ EngineMedia(NullOut)
    \/ \E out \in LawsReactionOuts : EngineReaction(out)
    \/ EngineCrisis(NullOut)
    \/ EngineHistorian(NullOut, EngineHours)

SpecLaws == InitLaws /\ [][NextLaws]_vars

-----------------------------------------------------------------------------
(* THE WATCHDOG UNDER INJECTED MODIFIERS *)

\* processTick is called on the new game tick after tick by one process;
\* what the crisis advisor injects in one tick drives a variable across a
\* threshold that the Watchdog of the following ticks finds crossed.  The
\* answers of the crisis advisor come through the wrapper of the registry;
\* each has the required fields, one a severity beyond 5.
ThresholdTicks == 5

ThresholdCrisisOuts ==
    {NullOut,
     CrisisOut("strike", 3,
               <<Mod("economy.unemployment", "set", Fx(30))>>, 0),
     CrisisOut("boom", 1, <<Mod("society.stability", "set", Fx(95))>>, 0),
     CrisisOut("unrest", 4,
               <<Mod("society.stability", "set", Fx(10)),
                 Mod("society.radicalization", "set", Fx(90))>>, 0),
     CrisisOut("meteor", 9, <<>>, 0)}

InitThresholds ==
    /\ worldState = EngineFresh
    /\ clock = 0
    /\ playerTokens = NoTokens
    /\ initialized = FALSE
    /\ storage = [worldState |-> NoWorld, playerTokens |-> NoTokens,
                  hasTokens |-> FALSE]
    /\ triggerCooldowns = NoCooldowns
    /\ tickRun = IdleRun
    /\ requests = <<>>
    /\ response = NoResponse
    /\ saving = NoSave
    /\ alarmTime = NoTick
    /\ tickCalls = 0
    /\ preTick = NoWorld
    /\ preEvents = NoWorld
    /\ lastOutcome = "none"
    /\ otherWorld = NoWorld

NextThresholds ==
    \/ EngineCall(ThresholdTicks)
    \/ EngineAnalyst(AnalystOut(TRUE))
    \/ EngineMedia(NullOut)
    \/ EngineReaction(ReactionOut([k \in {"overall"} |-> 0], 0, <<>>))
    \/ \E out \in ThresholdCrisisOuts :
            EngineCrisis(crisis(out, worldState))
    \/ EngineHistorian(NullOut, EngineHours)

SpecThresholds == InitThresholds /\ [][NextThresholds]_vars

-----------------------------------------------------------------------------
(* TWO GAMES HOSTED BY ONE PROCESS *)

\* Two GameServer objects live in one isolate: each has its own world, and
\* both call the processTick of the one loaded core-engine module, whose
\* triggerCooldowns map they share.  Every advisor of both resolves to null.
\* The second game's tick reads and writes the map in PHASE 6 only, within
\* one turn, so the tick is taken as one step at that turn.
TwoGamesTicks == 5

OtherGameSettles(m) ==
    /\ otherWorld' = m.state
    /\ triggerCooldowns' = m.cooldowns

OtherGameTick(maxTicks) ==
    /\ HasWorld(otherWorld)
    /\ otherWorld.num["meta.tick"] < Fx(maxTicks)
    /\ OtherGameSettles(processTick(otherWorld, triggerCooldowns, NullAi,
                                    clock))
    /\ UNCHANGED <<worldState, playerTokens, initialized, storage, tickRun,
                   requests, response, saving, alarmTime, clock, tickCalls,
                   preTick, preEvents, lastOutcome>>

InitTwoGames ==
    /\ worldState = EngineFresh
    /\ otherWorld = EngineFresh
    /\ clock = 0
    /\ playerTokens = NoTokens
    /\ initialized = FALSE
    /\ storage = [worldState |-> NoWorld, playerTokens |-> NoTokens,
                  hasTokens |-> FALSE]
    /\ triggerCooldowns = NoCooldowns
    /\ tickRun = IdleRun
    /\ requests = <<>>
    /\ response = NoResponse
    /\ saving = NoSave
    /\ alarmTime = NoTick
    /\ tickCalls = 0
    /\ preTick = NoWorld
    /\ preEvents = NoWorld
    /\ lastOutcome = "none"

NextTwoGames ==
    \/ EngineCall(TwoGamesTicks)
    \/ EngineAnalyst(NullOut)
    \/ EngineMedia(NullOut)
    \/ EngineReaction(NullOut)
    \/ EngineCrisis(NullOut)
    \/ EngineHistorian(NullOut, EngineHours)
    \/ OtherGameTick(TwoGamesTicks)

SpecTwoGames == InitTwoGames /\ [][NextTwoGames]_vars

-----------------------------------------------------------------------------
(* THE MODIFIER KERNEL ON ITS OWN *)

\* applyModifier called on a world with one modifier after another, as
\* applyModifiers calls it: the world before the last call is kept in
\* preTick, the modifier and the ModifierResult in lastOutcome.  Of the
\* paths, economy.subsidies is in no world and meta.game_id is a string.
ModifierCalls == 2

ModifierPaths ==
    {"economy.tax_rate", "economy.gdp_delta", "economy.subsidies",
     "meta.game_id", "laws.0.votes.for"}

ModifierMenu ==
    {Mod(p, op, v) : p \in ModifierPaths,
                     op \in {"set", "add", "divide"},
                     v \in {0, Fx(50), Fx(200), Infinity, -Infinity}}
    \cup {Mod(p, "multiply", v) : p \in ModifierPaths,
                                 v \in {0, Fx(2), Infinity, -Infinity}}
    \cup {ClampMod(p, Fx(10), Fx(20)) : p \in ModifierPaths}
    \cup {ClampMod(p, -Infinity, Fx(-200)) : p \in ModifierPaths}

ModifierCall(mod) ==
    /\ tickCalls < ModifierCalls
    /\ LET r == applyModifier(worldState, mod)
       IN  /\ worldState' = r.state
           /\ lastOutcome' = [mod |-> mod, applied |-> r.applied,
                              old_value |-> r.old_value,
                              new_value |-> r.new_value]
    /\ preTick' = worldState
    /\ tickCalls' = tickCalls + 1
    /\ UNCHANGED <<playerTokens, initialized, storage, triggerCooldowns,
                   tickRun, requests, response, saving, alarmTime, clock,
                   preEvents, otherWorld>>

InitModifier ==
    /\ worldState \in {EngineFresh, LawsBase}
    /\ clock = 0
    /\ playerTokens = NoTokens
    /\ initialized = FALSE
    /\ storage = [worldState |-> NoWorld, playerTokens |-> NoTokens,
                  hasTokens |-> FALSE]
    /\ triggerCooldowns = NoCooldowns
    /\ tickRun = IdleRun
    /\ requests = <<>>
    /\ response = NoResponse
    /\ saving = NoSave
    /\ alarmTime = NoTick
    /\ tickCalls = 0
    /\ preTick = NoWorld
    /\ preEvents = NoWorld
    /\ lastOutcome = "none"
    /\ otherWorld = NoWorld

NextModifier == \E mod \in ModifierMenu : ModifierCall(mod)

SpecModifier == InitModifier /\ [][NextModifier]_vars

-----------------------------------------------------------------------------
(* THE ORDER OF THE ACTION PHASE *)

\* processTick is called on a game of two politicians who joined in either
\* order of their ids (ids made within one millisecond differ in their
\* random suffix alone, which may sort either way); each has proposed no
\* law, one or two.
OrderTicks == 2

JoinOrders == {<<"p1", "p2">>, <<"p2", "p1">>}

Proposal(text) == Action("propose_law", [NoParams EXCEPT !.text = text])

ProposalMenu ==
    {<<>>, <<Proposal("first bill")>>,
     <<Proposal("first bill"), Proposal("second bill")>>,
     <<Proposal("second bill"), Proposal("first bill")>>}

InitOrder ==
    /\ \E order \in JoinOrders, a \in ProposalMenu, b \in ProposalMenu :
            worldState =
                WithPending(
                    WithPending(
                        addPlayerToState(
                            addPlayerToState(createInitialState(24, 0),
                                             order[1], "politician"),
                            order[2], "politician"),
                        "p1", a),
                    "p2", b)
    /\ clock = 0
    /\ playerTokens = NoTokens
    /\ initialized = FALSE
    /\ storage = [worldState |-> NoWorld, playerTokens |-> NoTokens,
                  hasTokens |-> FALSE]
    /\ triggerCooldowns = NoCooldowns
    /\ tickRun = IdleRun
    /\ requests = <<>>
    /\ response = NoResponse
    /\ saving = NoSave
    /\ alarmTime = NoTick
    /\ tickCalls = 0
    /\ preTick = NoWorld
    /\ preEvents = NoWorld
    /\ lastOutcome = "none"
    /\ otherWorld = NoWorld

NextOrder ==
    \/ EngineCall(OrderTicks)
    \/ EngineAnalyst(NullOut)
    \/ EngineMedia(NullOut)
    \/ EngineReaction(NullOut)
    \/ EngineCrisis(NullOut)
    \/ EngineHistorian(NullOut, EngineHours)

SpecOrder == InitOrder /\ [][NextOrder]_vars

-----------------------------------------------------------------------------
(* THE POLITICAL REACTION STAGE *)

\* processTick is called on the new game, or on the game a tick after a
\* reaction founded the League and the Front; the reaction advisor answers
\* with a protest probability or with directives for the movements, and
\* the crisis advisor may set the protest pressure for the next tick.
ReactionTicks == 2

NoDelta == [k \in {"overall"} |-> 0]

ReactionBase ==
    processTick(EngineFresh, NoCooldowns,
                [NullAi EXCEPT !.politicalReaction =
                    ReactionOut(NoDelta, 0,
                        <<MovementChange("create", "The League",
                                         "reformist", NoId, NotANumber),
                          MovementChange("create", "The Front",
                                         "radical", NoId, NotANumber)>>)],
                Fx(24)).state

Create(name) == MovementChange("create", name, "reformist", NoId, NotANumber)
Dissolve(id) == MovementChange("dissolve", "", "", id, NotANumber)
Strengthen(id) == MovementChange("strengthen", "", "", id, 500)

ReactionProbs == {-Fx(1), 0, 50, 500, Fx(1), Fx(3), Infinity, NotANumber}

ReactionDirectives ==
    {<<Create("The Guild")>>,
     <<Create("The Guild"), Create("The Lodge")>>,
     <<Strengthen(LeagueId), Dissolve(FrontId)>>,
     <<Create("The Guild"), Dissolve(LeagueId), Create("The Lodge")>>}

ReactionStageOuts ==
    {Throws}
    \cup {ReactionOut(NoDelta, p, <<>>) : p \in ReactionProbs}
    \cup {ReactionOut(NoDelta, 0, d) : d \in ReactionDirectives}

ReactionCrisisOuts ==
    {NullOut,
     CrisisOut("unrest", 2,
               <<Mod("society.protest_pressure", "set", Fx(1))>>, 0),
     CrisisOut("calm", 1,
               <<Mod("society.protest_pressure", "set", 0)>>, 0)}

InitReaction ==
    /\ worldState \in {EngineFresh, ReactionBase}
    /\ clock = Fx(24)
    /\ playerTokens = NoTokens
    /\ initialized = FALSE
    /\ storage = [worldState |-> NoWorld, playerTokens |-> NoTokens,
                  hasTokens |-> FALSE]
    /\ triggerCooldowns = NoCooldowns
    /\ tickRun = IdleRun
    /\ requests = <<>>
    /\ response = NoResponse
    /\ saving = NoSave
    /\ alarmTime = NoTick
    /\ tickCalls = 0
    /\ preTick = NoWorld
    /\ preEvents = NoWorld
    /\ lastOutcome = "none"
    /\ otherWorld = NoWorld

NextReaction ==
    \/ EngineCall(ReactionTicks)
    \/ EngineAnalyst(NullOut)
    \/ EngineMedia(NullOut)
    \/ \E out \in ReactionStageOuts : EngineReaction(out)
    \/ \E out \in ReactionCrisisOuts : EngineCrisis(out)
    \/ EngineHistorian(NullOut, EngineHours)

SpecReaction == InitReaction /\ [][NextReaction]_vars

(* THE HISTORIAN STAGE *)

\* processTick is called on the new game tick after tick by one process;
\* the historian advisor fails, names no era, names the era that is open,
\* or names a new one, with or without reputations.
ErasTicks == 3

ErasHistorianOuts ==
    {Throws, NullOut,
     HistorianOut("", [p \in {"p1"} |-> "schemer"]),
     HistorianOut("The Founding", [p \in {"p2"} |-> "voter"]),
     HistorianOut("The Long Decline", [p \in {"p1"} |-> "reformer"]),
     HistorianOut("The Thaw", [p \in {} |-> ""])}

ErasCrisisOuts ==
    {NullOut,
     CrisisOut("economic_crisis", 3,
               <<Mod("economy.gdp", "multiply", 500)>>, 0)}

InitEras ==
    /\ worldState = EngineFresh
    /\ clock = 0
    /\ playerTokens = NoTokens
    /\ initialized = FALSE
    /\ storage = [worldState |-> NoWorld, playerTokens |-> NoTokens,
                  hasTokens |-> FALSE]
    /\ triggerCooldowns = NoCooldowns
    /\ tickRun = IdleRun
    /\ requests = <<>>
    /\ response = NoResponse
    /\ saving = NoSave
    /\ alarmTime = NoTick
    /\ tickCalls = 0
    /\ preTick = NoWorld
    /\ preEvents = NoWorld
    /\ lastOutcome = "none"
    /\ otherWorld = NoWorld

NextEras ==
    \/ EngineCall(ErasTicks)
    \/ EngineAnalyst(NullOut)
    \/ EngineMedia(NullOut)
    \/ EngineReaction(NullOut)
    \/ \E out \in ErasCrisisOuts : EngineCrisis(crisis(out, worldState))
    \/ \E out \in ErasHistorianOuts :
            EngineHistorian(historian(out, worldState), EngineHours)

SpecEras == InitEras /\ [][NextEras]_vars

-----------------------------------------------------------------------------

-----------------------------------------------------------------------------
(* PROPERTIES OF processTick *)

\* every variable of the Hard Constraints Table lies within its bounds
WithinConstraints(state) ==
    \A p \in DOMAIN HARD_CONSTRAINTS :
        /\ state.num[p] >= HARD_CONSTRAINTS[p].min
        /\ state.num[p] <= HARD_CONSTRAINTS[p].max

\* C1: after every completed tick, whatever the actions and the advisor
\* outputs were, every variable of the Hard Constraints Table lies within
\* its [min, max] bounds.
C1_ConstraintsHoldAfterTick ==
    lastOutcome = "finalized" => WithinConstraints(worldState)

\* C2: when a modifier of a pending event's batch is rejected, the event is
\* rejected and every variable the batch wrote has the value it had before
\* the batch began, also when the batch names one variable twice: the
\* failed event causes no net change.  Stated where processEvents has just
\* returned with every pending event rejected.
C2_RejectedBatchRestored ==
    (/\ tickRun.pc = "historian"
     /\ tickRun.eventResults.rejected > 0
     /\ tickRun.eventResults.applied = 0)
        => worldState.num = preEvents.num

\* C3: every started tick reaches the finalize step whatever any single
\* advisor does: no call of processTick ends by throwing.
C3_TickAlwaysFinalizes ==
    lastOutcome # "threw"

\* C8: every tick increases meta.tick by exactly 1 and meta.seed by exactly
\* 1 relative to their values when the tick started, whatever the modifier
\* batches of its events and law interpretations contain.
C8_TickAndSeedAdvanceByOne ==
    lastOutcome = "finalized" =>
        /\ worldState.num["meta.tick"] = preTick.num["meta.tick"] + Fx(1)
        /\ worldState.num["meta.seed"] = preTick.num["meta.seed"] + Fx(1)

\* two calls of processTick that both finalized left the same world, and so
\* the same state_snapshot_hash in its last tick_log entry
SameTick(a, b) ==
    (a.run.pc = "done" /\ b.run.pc = "done") => a.state = b.state

\* C4: a tick run on two copies of one world, with the same queued actions
\* and the same advisor outputs, yields the same post-tick state and the
\* same state_snapshot_hash, whatever the wall clock reads and whatever
\* ticks the process ran before (which is what the cooldown map records).
C4_TickIsDeterministic ==
    tickRun.pc = "idle" =>
        \A cooldowns \in {triggerCooldowns, NoCooldowns},
           hours \in {EngineHours, EngineHours + 1} :
            SameTick(processTick(worldState, triggerCooldowns, NullAi,
                                 clock + Fx(EngineHours)),
                     processTick(worldState, cooldowns, NullAi,
                                 clock + Fx(hours)))

-----------------------------------------------------------------------------
(* PROPERTIES OF THE GAME SERVER *)

\* this step appends to some player's actions_pending
PendingGrows ==
    /\ HasWorld(worldState)
    /\ HasWorld(worldState')
    /\ \E i \in 1..Len(worldState.players) :
        /\ i <= Len(worldState'.players)
        /\ Len(worldState'.players[i].actions_pending)
            > Len(worldState.players[i].actions_pending)

\* C5: in every interleaving of the action handler with an alarm-driven
\* tick, an action is appended to a player's actions_pending only while
\* meta.phase is accepting_actions: a submission in flight while a tick is
\* processing is rejected and leaves actions_pending as it was.
C5_AppendOnlyWhileAccepting ==
    [][PendingGrows => worldState.phase = "accepting_actions"]_vars

\* C6: a tick is committed to storage only as a whole at its end: nothing
\* writes the persisted worldState between a tick's start and its finalize
\* step, so every persisted worldState has phase accepting_actions.
C6_PersistedWorldIsAccepting ==
    HasWorld(storage.worldState) =>
        storage.worldState.phase = "accepting_actions"

\* this step ends a call of processTick before its finalize step
TickStops ==
    /\ lastOutcome' = "threw"
    /\ tickRun.pc # "idle" \/ tickCalls' # tickCalls

\* C7: when a tick stops before its finalize step its partial progress is
\* discarded: the world later handlers see and the next tick starts from,
\* and the persisted world, are the pre-tick snapshot.
C7_StoppedTickIsDiscarded ==
    [][TickStops => /\ worldState' = preTick'
                    /\ storage'.worldState = preTick']_vars

\* no player of the world has more than n pending actions
AtMostPending(state, n) ==
    \A i \in 1..Len(state.players) :
        Len(state.players[i].actions_pending) <= n

\* this step starts a tick; this step finalizes the running tick
TickStarts == tickCalls' = tickCalls + 1
TickFinishes == lastOutcome' = "finalized" /\ tickRun.pc # "idle"

\* C9: at the start of every tick each player has at most 5 pending
\* actions, and when the tick has finished every player's actions_pending
\* is empty, in every interleaving of action submissions with ticks.
C9_PendingBoundedThenEmpty ==
    [][/\ TickStarts => AtMostPending(preTick', MaxPendingActions)
       /\ TickFinishes => AtMostPending(worldState', 0)]_vars

\* this step answers the n-th suspended call, a POST /action
ActionAnswered(n) ==
    /\ requests[n].route = "action"
    /\ requests' = Without(requests, n)

\* the body names a player of the world whose pending actions are at the
\* limit
OverLimit(body) ==
    /\ HasWorld(worldState)
    /\ PlayerIndex(worldState, body.playerId) # 0
    /\ Len(worldState.players[PlayerIndex(worldState, body.playerId)]
            .actions_pending) >= MaxPendingActions

\* the body passes every check handleAction makes before the rate limit:
\* the token is the player's, the player is alive and the action is one of
\* the player's role
PassesOtherChecks(body) ==
    /\ body.playerId \in DOMAIN playerTokens
    /\ playerTokens[body.playerId] = body.playerToken
    /\ worldState.players[PlayerIndex(worldState, body.playerId)].alive
    /\ body.action.action_type \in
        validActions(worldState.players[PlayerIndex(worldState,
                                                    body.playerId)].role)

\* C10: a player who already has 5 pending actions has every further
\* submission rejected and the pending count stays 5: neither the world in
\* memory nor the persisted one changes, and a submission that passes the
\* handler's other checks is answered with the rate-limit status 429, which
\* no other refusal carries.
C10_OverLimitIsRefused ==
    [][\A n \in 1..Len(requests) :
        (ActionAnswered(n) /\ OverLimit(requests[n].body)) =>
            /\ worldState' = worldState
            /\ storage' = storage
            /\ response'.status >= 400
            /\ PassesOtherChecks(requests[n].body) =>
                response' = jsonRes(429, "action",
                                    requests[n].body.playerId)]_vars

\* a sixth action of a player with 5 pending has just been answered with 429
C10_SixthActionRefused ==
    /\ response.status = 429
    /\ response.route = "action"
    /\ HasWorld(worldState)
    /\ Len(worldState.players[PlayerIndex(worldState, response.playerId)]
            .actions_pending) = MaxPendingActions

-----------------------------------------------------------------------------
(* PROPERTIES OF THE HANDLERS *)

\* the status codes of the user errors
UserErrors == {400, 401, 403, 404, 409, 429}

\* C11: a request that ends in a user error (missing or wrong token, action
\* not allowed for the role, server full, phase not accepting_actions for
\* join or action, over the pending limit) leaves the persisted storage as
\* it was, and the world and the token map the handlers work on as well:
\* the cached ones, or the persisted ones the request loads when nothing is
\* cached.
C11_UserErrorsChangeNothing ==
    [][response'.status \in UserErrors =>
        /\ storage' = storage
        /\ ensureLoaded' = ensureLoaded
        /\ HasWorld(worldState) =>
            worldState' = worldState /\ playerTokens' = playerTokens]_vars

\* a join has just been refused because a tick is processing
C11_JoinRefusedWhileProcessing ==
    /\ response = jsonRes(409, "join", Null)
    /\ tickRun.pc # "idle"

-----------------------------------------------------------------------------
(* PROPERTIES OF THE LAWS *)

\* the changes of status one tick may make to a law
LawHops ==
    {<<"proposed", "voting">>, <<"voting", "active">>,
     <<"voting", "rejected">>}

\* from the world before a tick to the world after it every law kept its
\* status or made one hop, and every new law is proposed
OneHopEach(before, after) ==
    /\ Len(after.laws) >= Len(before.laws)
    /\ \A k \in 1..Len(after.laws) :
        IF k > Len(before.laws) THEN after.laws[k].status = "proposed"
        ELSE \/ after.laws[k].status = before.laws[k].status
             \/ <<before.laws[k].status, after.laws[k].status>> \in LawHops

\* C12: over any sequence of ticks each law's status changes only along
\* proposed -> voting -> active or voting -> rejected, by at most one hop
\* per tick, and never again once it is rejected.
C12_LawsMoveOneHopPerTick ==
    lastOutcome = "finalized" => OneHopEach(preTick, worldState)

\* a citizen of state has a pending vote for law k, nobody has a pending
\* vote against it, and no vote against it is tallied
CitizenVotesFor(state, k) ==
    LET votesOn(action) ==
            /\ action.action_type \in {"vote_law", "vote_law_politician"}
            /\ action.params.law_id = state.laws[k].id
        pendingOf(i) == state.players[i].actions_pending
    IN  /\ state.laws[k].status = "voting"
        /\ state.laws[k].votes.against = 0
        /\ \E i \in DOMAIN state.players :
                /\ state.players[i].role = "citizen"
                /\ \E n \in DOMAIN pendingOf(i) :
                        /\ pendingOf(i)[n].action_type = "vote_law"
                        /\ pendingOf(i)[n].params.law_id = state.laws[k].id
                        /\ pendingOf(i)[n].params.vote = "for"
        /\ \A i \in DOMAIN state.players : \A n \in DOMAIN pendingOf(i) :
                votesOn(pendingOf(i)[n]) => pendingOf(i)[n].params.vote = "for"

\* how often the judiciary stage of the running tick takes up law k
JudiciaryCalls(k) ==
    Cardinality({n \in DOMAIN tickRun.newLaws : tickRun.newLaws[n] = k})

\* C13: a law proposed in an earlier tick has status voting after the next
\* tick; when one citizen has then submitted a vote for it, the following
\* tick leaves it active and, it being the only law, active_law_count 1,
\* and the judiciary stage of that tick is invoked exactly once for the law
\* and binds an interpretation, after which no later tick invokes it again.
C13_LawPassesOnOneCitizenVote ==
    [][TickFinishes =>
        \A k \in DOMAIN preTick.laws :
            /\ (/\ preTick.laws[k].status = "proposed"
                /\ preTick.laws[k].votes.for + preTick.laws[k].votes.against
                     = 0
                /\ preTick.laws[k].proposed_tick < preTick.num["meta.tick"])
                    => worldState'.laws[k].status = "voting"
            /\ CitizenVotesFor(preTick, k) =>
                    /\ worldState'.laws[k].status = "active"
                    /\ Len(preTick.laws) = 1 =>
                        worldState'.num["government.active_law_count"]
                            = Fx(1)
                    /\ JudiciaryCalls(k) = 1
                    /\ Len(tickRun.aiOutputs.judiciary) = Len(tickRun.newLaws)
                    /\ ~worldState'.laws[k].judiciary_interpretation.isNull
            /\ ~preTick.laws[k].judiciary_interpretation.isNull =>
                    JudiciaryCalls(k) = 0]_vars

\* a tick has finished that found the only law in voting with one citizen's
\* vote for it pending: the law is active on that one vote and interpreted
C13_CitizenVoteActivatedLaw ==
    /\ lastOutcome = "finalized"
    /\ HasWorld(preTick) /\ HasWorld(worldState)
    /\ Len(preTick.laws) = 1
    /\ CitizenVotesFor(preTick, 1)
    /\ worldState.laws[1].status = "active"
    /\ worldState.laws[1].votes.for = Fx(1)
    /\ ~worldState.laws[1].judiciary_interpretation.isNull
    /\ worldState.num["government.active_law_count"] = Fx(1)

\* the Watchdog's events of the world: those checkThresholds pushed
WatchdogEvents(state) ==
    {k \in DOMAIN state.events : state.events[k].source = "core_engine"}

\* C14: for every threshold entry with event type E and cooldown c, the
\* world never holds two Watchdog events of type E of ticks t1 < t2 with
\* t2 - t1 < c.
C14_WatchdogKeepsCooldown ==
    HasWorld(worldState) =>
        \A t \in DOMAIN THRESHOLD_TRIGGERS :
            \A j, k \in WatchdogEvents(worldState) :
                LET first == worldState.events[j]
                    second == worldState.events[k]
                IN  (/\ first.type = THRESHOLD_TRIGGERS[t].event_type
                     /\ second.type = THRESHOLD_TRIGGERS[t].event_type
                     /\ first.tick < second.tick)
                        => second.tick - first.tick
                             >= Fx(THRESHOLD_TRIGGERS[t].cooldown_ticks)

\* the reaction stage of the running tick takes its step
ReactionStage == tickRun.pc = "reaction" /\ tickRun'.pc # "reaction"

PlaceholderHeadlines ==
    <<"No news reports available this cycle.",
      "Communications disrupted -- details unclear.">>

HeadlineTexts(state) ==
    [n \in DOMAIN state.media_state.headlines |->
        state.media_state.headlines[n].text]

\* every approval value is one lower after the step, and none below zero
ApprovalsDropByOne ==
    \A key \in DOMAIN ApprovalPath :
        worldState'.num[ApprovalPath[key]]
            = Max(0, worldState.num[ApprovalPath[key]] - Fx(1))

\* protest_pressure, while at most 0.98, is by rise higher after the step,
\* to the last digit kept
PressureRisesBy(rise) ==
    LET before == worldState.num["society.protest_pressure"]
        after == worldState'.num["society.protest_pressure"]
    IN  before + 20 <= Fx(1) =>
            /\ after >= before + rise - 1
            /\ after <= before + rise + 1

\* what the tick does whose advisors all fail, the pressure rising by rise
FallbackTick(rise) ==
    /\ lastOutcome' # "threw"
    /\ TickFinishes => HeadlineTexts(worldState') = PlaceholderHeadlines
    /\ ReactionStage => ApprovalsDropByOne /\ PressureRisesBy(rise)

Members(state, k) ==
    {state.movements[k].member_player_ids[n] :
        n \in DOMAIN state.movements[k].member_player_ids}

\* no member list holds an id twice, a player's movement_id is a movement's
\* id exactly when the player is in its member list, and every movement_id
\* that is not null is the id of a movement of the world
MovementsConsistent(state) ==
    /\ \A k \in DOMAIN state.movements :
            Cardinality(Members(state, k))
                = Len(state.movements[k].member_player_ids)
    /\ \A k \in DOMAIN state.movements : \A i \in DOMAIN state.players :
            state.players[i].visible_stats.movement_id
                    = state.movements[k].id
                <=> state.players[i].id \in Members(state, k)
    /\ \A i \in DOMAIN state.players :
            state.players[i].visible_stats.movement_id # NoId
                => FindMovement(state,
                        state.players[i].visible_stats.movement_id) # 0

\* C16: after every tick no movement's member_player_ids contains a
\* duplicate id, a player's movement_id equals m.id exactly when the
\* player's id is in m.member_player_ids, and every non-null movement_id
\* names a movement that still exists.
C16_MembershipIsConsistent ==
    lastOutcome = "finalized" => MovementsConsistent(worldState)

\* the sum of the five fractions of the budget allocation
AllocationSum(state) ==
    SumOver([key \in DOMAIN AllocationPath |-> state.num[AllocationPath[key]]],
            AllocationKeys, Len(AllocationKeys))

\* C17: after every tick the five budget_allocation fractions sum to within
\* 0.01 of 1.0, whatever allocate_budget actions and advisor-supplied
\* modifier batches there were.
C17_AllocationSumsToOne ==
    lastOutcome = "finalized" =>
        /\ AllocationSum(worldState) - Fx(1) <= 10
        /\ Fx(1) - AllocationSum(worldState) <= 10

\* the values the hidden data of a world are replaced by
HiddenValues == {0, 900}

\* state with every player's hidden_stats, the five society scalars and
\* every law's vote tally replaced, each of the three by the value named or
\* kept where none is named
WithHidden(state, stats, scalars, votes) ==
    [state EXCEPT
        !.players =
            [i \in DOMAIN @ |->
                IF stats = NotANumber THEN @[i]
                ELSE [@[i] EXCEPT !.hidden_stats =
                        [f \in DOMAIN @ |-> stats]]],
        !.num =
            [p \in DOMAIN @ |->
                IF scalars # NotANumber
                   /\ p \in {"society.stability", "society.public_trust",
                             "society.satisfaction", "society.radicalization",
                             "society.protest_pressure"}
                THEN scalars ELSE @[p]],
        !.laws =
            [k \in DOMAIN @ |->
                IF votes = NotANumber THEN @[k]
                ELSE [@[k] EXCEPT !.votes = [f \in DOMAIN @ |-> votes]]]]

\* the worlds that differ from state in the hidden data only
HiddenVariants(state) ==
    {WithHidden(state, stats, scalars, votes) :
        stats \in HiddenValues \cup {NotANumber},
        scalars \in HiddenValues \cup {NotANumber},
        votes \in HiddenValues \cup {NotANumber}}

\* the names of the fields that hold hidden data in the world
HiddenFields ==
    {"hidden_stats", "influence", "reputation", "fear", "corruption",
     "historical_legacy", "stability", "public_trust", "satisfaction",
     "radicalization", "protest_pressure", "votes", "for", "against",
     "abstain"}

\* handleView answers with a view in this step, which is no step of a tick
ViewServed ==
    /\ response'.route = "view"
    /\ response'.status = 200
    /\ worldState' = worldState
    /\ tickRun' = tickRun

\* C18: the view projection leaks no hidden data: worlds that differ only
\* in players' hidden_stats, in the raw society scalars or in law vote
\* tallies yield the view that was served, for the same player and the same
\* noise seed, and the view has no field of a hidden value's name.
C18_ViewLeaksNoHiddenData ==
    [][ViewServed =>
        /\ \A other \in HiddenVariants(worldState) :
                generatePlayerView(other, response'.playerId,
                                   noiseSeedOf(worldState))
                    = response'.view
        /\ DOMAIN response'.view \cap HiddenFields = {}
        /\ DOMAIN response'.view.role_specific \cap HiddenFields = {}
        /\ DOMAIN response'.view.market_signals \cap HiddenFields = {}
        /\ DOMAIN response'.view.government_signals \cap HiddenFields
             = {}]_vars

\* the politician was served a view of a world that holds a law with votes
\* tallied, while the citizen's hidden influence has grown
C18_ViewOfWorldWithTallies ==
    /\ response.route = "view"
    /\ response.status = 200
    /\ response.view.role = "politician"
    /\ \E k \in DOMAIN worldState.laws : worldState.laws[k].votes.for > 0
    /\ \E i \in DOMAIN worldState.players :
            worldState.players[i].hidden_stats.influence > Fx(5)
    /\ generatePlayerView(worldState, "p1", noiseSeedOf(worldState))
         = response.view

\* the time the tick of this number finalized at, by the tick log; NoTick
\* when the log holds no such entry
FinalizedAt(state, tick) ==
    LET hits == {n \in DOMAIN state.tick_log : state.tick_log[n].tick = tick}
    IN  IF hits = {} THEN NoTick
        ELSE state.tick_log[CHOOSE n \in hits : TRUE].timestamp

\* every action of the group was pushed in the accepting phase of the
\* group's tick: not before the tick before it had finalized
SubmittedForTick(state, group) ==
    \A n \in DOMAIN group.actions :
        group.actions[n].submitted_at
            >= FinalizedAt(state, group.tick - Fx(1))

\* C19: every accepted action is processed by exactly one tick, the tick
\* whose accepting phase it was submitted in, and is recorded once in the
\* player's actions_history under that tick's number, so that every group
\* of the history holds actions submitted after the tick before had
\* finalized and no two groups bear one number; actions_history never holds
\* more than 10 groups.
C19_ActionsRecordedUnderTheirTick ==
    HasWorld(worldState) =>
        \A i \in DOMAIN worldState.players :
            LET history == worldState.players[i].actions_history
            IN  /\ Len(history) <= ActionsHistoryCap
                /\ \A g \in DOMAIN history :
                        SubmittedForTick(worldState, history[g])
                /\ \A g, h \in DOMAIN history :
                        history[g].tick = history[h].tick => g = h

\* the ids of the players of the persisted world
PersistedPlayers ==
    {storage.worldState.players[i].id :
        i \in DOMAIN storage.worldState.players}

\* the ids the persisted token map holds a token for
PersistedTokens ==
    IF storage.hasTokens THEN DOMAIN storage.playerTokens ELSE {}

\* C20: the persisted worldState and the persisted token map are committed
\* atomically: whenever no save is under way, also after one was
\* interrupted between its two writes, storage holds both as of one save,
\* so the persisted players are those with a persisted token.
C20_WorldAndTokensCommitTogether ==
    (~saving.pending /\ HasWorld(storage.worldState))
        => PersistedPlayers = PersistedTokens

-----------------------------------------------------------------------------
(* THE TICK LOG *)

\* new is old with one entry appended at the tail and, when that made more
\* than TickLogCap entries, the head dropped
AppendedOne(old, new) ==
    /\ Len(new) > 0
    /\ \/ new = Append(old, new[Len(new)])
       \/ /\ Len(old) = TickLogCap
          /\ new = Tail(Append(old, new[Len(new)]))

\* C21: state.tick_log never holds more than 50 entries; each tick appends
\* exactly one entry at the tail, and existing entries are never modified or
\* reordered, only dropped from the head.  Stated over every step of a
\* processTick call: the step that finalizes the tick appends one entry,
\* every other step leaves the log as it was.
C21_TickLogIsAppendOnly ==
    [][/\ Len(worldState'.tick_log) <= TickLogCap
       /\ IF tickRun.pc = "historian"
          THEN AppendedOne(worldState.tick_log, worldState'.tick_log)
          ELSE worldState'.tick_log = worldState.tick_log]_vars

-----------------------------------------------------------------------------
(* LAW INTERPRETATIONS THAT THE KERNEL REJECTS *)

\* law k of state is active with a bound interpretation that is not
\* flagged, and the Kernel rejects a modifier of its batch on this state.
\* (The batches of LawsJudiciaryOuts are rejected for a path that is
\* missing, which no action and no economic recalculation changes, so the
\* state the tick begins with decides as the state the lifecycle finds.)
LifecycleRejects(state, k) ==
    /\ state.laws[k].status = "active"
    /\ ~state.laws[k].judiciary_interpretation.isNull
    /\ ~state.laws[k].judiciary_interpretation.rejected_by_core
    /\ AnyRejected(applyModifiers(state,
            state.laws[k].judiciary_interpretation.implementation.modifiers)
                .results)

BoundAndRejected(k) ==
    /\ worldState.laws[k].judiciary_interpretation.isNull
    /\ ~worldState'.laws[k].judiciary_interpretation.isNull
    /\ AnyRejected(applyModifiers(worldState',
            worldState'.laws[k].judiciary_interpretation.implementation
                .modifiers).results)

\* state with the batch of every flagged interpretation emptied
WithoutFlaggedBatches(state) ==
    [state EXCEPT !.laws =
        [k \in DOMAIN @ |->
            IF @[k].judiciary_interpretation.rejected_by_core
            THEN [@[k] EXCEPT
                    !.judiciary_interpretation.implementation.modifiers = <<>>]
            ELSE @[k]]]

SomeLawFlagged(state) ==
    \E k \in DOMAIN state.laws :
        state.laws[k].judiciary_interpretation.rejected_by_core

SameNumbers(a, b) == a.state.num = b.state.num

\* C23: when the judiciary stage binds an interpretation and the Kernel
\* rejects any modifier of its batch, the interpretation is flagged
\* rejected_by_core, every variable written by the batch is restored to its
\* pre-batch value, the law keeps status active, and the law's modifiers are
\* never applied in any later tick: a tick begins as it would with the
\* flagged batches empty.
C23_JudiciaryRejectionRestores ==
    [][/\ tickRun.pc = "judiciary" =>
            \A k \in DOMAIN worldState.laws :
                BoundAndRejected(k) =>
                    /\ worldState'.laws[k].judiciary_interpretation
                                          .rejected_by_core
                    /\ worldState'.laws[k].status = "active"
                    /\ worldState'.num = worldState.num
       /\ (TickStarts /\ SomeLawFlagged(worldState)) =>
            SameNumbers([state |-> worldState'],
                        tickBegin(WithoutFlaggedBatches(worldState),
                                  triggerCooldowns))]_vars

-----------------------------------------------------------------------------
(* THE THRESHOLD WATCHDOG *)

\* the condition of entry t of THRESHOLD_TRIGGERS holds on state
ConditionHolds(state, t) ==
    LET trigger == THRESHOLD_TRIGGERS[t]
        got == getByPath(state, trigger.variable)
    IN  /\ got.defined
        /\ \/ trigger.condition = "above" /\ got.value > trigger.value
           \/ trigger.condition = "below" /\ got.value < trigger.value

\* this step is PHASE 6 of a tick: the Watchdog has run on worldState, and
\* the events it emitted are among those worldState' has more
WatchdogRuns == tickRun.pc = "crisis" /\ tickRun'.pc = "historian"

NewEvents ==
    {n \in DOMAIN worldState'.events :
        /\ n > Len(worldState.events)
        /\ worldState'.events[n].source = "core_engine"}

\* the Watchdog events of this step that entry t accounts for
EmittedFor(t) ==
    {n \in NewEvents :
        /\ worldState'.events[n].type = THRESHOLD_TRIGGERS[t].event_type
        /\ worldState'.events[n].severity = THRESHOLD_TRIGGERS[t].severity}

\* the ticks of the earlier Watchdog events that entry t accounts for, and
\* of those of its event type
FiredAt(t) ==
    {worldState.events[n].tick : n \in
        {m \in DOMAIN worldState.events :
            /\ worldState.events[m].source = "core_engine"
            /\ worldState.events[m].type = THRESHOLD_TRIGGERS[t].event_type
            /\ worldState.events[m].severity
                 = THRESHOLD_TRIGGERS[t].severity}}

TypeFiredAt(t) ==
    {worldState.events[n].tick : n \in
        {m \in DOMAIN worldState.events :
            /\ worldState.events[m].source = "core_engine"
            /\ worldState.events[m].type = THRESHOLD_TRIGGERS[t].event_type}}

\* an entry before t in the table has the event type of t and emits in this
\* step
EarlierOfTypeEmits(t) ==
    \E u \in 1..(t - 1) :
        /\ THRESHOLD_TRIGGERS[u].event_type = THRESHOLD_TRIGGERS[t].event_type
        /\ EmittedFor(u) # {}

\* every Watchdog event of this step is applied, has no modifiers and the
\* tick of the state, and its type's trigger tick is recorded
EmittedWellFormed ==
    \A n \in NewEvents :
        /\ worldState'.events[n].status = "applied"
        /\ worldState'.events[n].modifiers = <<>>
        /\ worldState'.events[n].tick = worldState.num["meta.tick"]
        /\ worldState'.events[n].type \in DOMAIN triggerCooldowns'
        /\ triggerCooldowns'[worldState'.events[n].type]
             = worldState.num["meta.tick"]

EntryOutOfCooldown(t) ==
    \A last \in FiredAt(t) :
        worldState.num["meta.tick"] - last
            >= Fx(THRESHOLD_TRIGGERS[t].cooldown_ticks)

TypeOutOfCooldown(t) ==
    \A last \in TypeFiredAt(t) :
        worldState.num["meta.tick"] - last
            >= Fx(THRESHOLD_TRIGGERS[t].cooldown_ticks)

FirstOfItsType(t) ==
    \A v \in 1..(t - 1) :
        THRESHOLD_TRIGGERS[v].event_type = THRESHOLD_TRIGGERS[t].event_type
            => ~ConditionHolds(worldState, v)

EmittedThisTick(type, severity) ==
    {n \in DOMAIN worldState.events :
        /\ worldState.events[n].source = "core_engine"
        /\ worldState.events[n].tick = worldState.num["meta.tick"]
        /\ worldState.events[n].type = type
        /\ worldState.events[n].severity = severity}

-----------------------------------------------------------------------------
(* THE COOLDOWNS OF TWO GAMES *)

\* the cooldown table that the Watchdog events of state's own history
\* make: each event type with the tick of the last of its events
OwnCooldowns(state) ==
    LET mine == {n \in DOMAIN state.events :
                    state.events[n].source = "core_engine"}
        types == {state.events[n].type : n \in mine}
    IN  [type \in types |->
            CHOOSE tick \in {state.events[n].tick : n \in
                                {m \in mine : state.events[m].type = type}} :
                \A n \in mine : state.events[n].type = type
                                    => state.events[n].tick <= tick]

TypesOf(events) == {events[n].type : n \in DOMAIN events}

\* C26: threshold cooldown state is per game: with two games hosted by the
\* same process, a Watchdog event emitted in one game never suppresses or
\* delays a Watchdog event in the other game, whose emissions depend only
\* on its own state and its own ticks.  Stated for the first game: what its
\* Watchdog emits in a tick is what checkThresholds gives on its world and
\* the table of its own earlier events.
C26_CooldownsArePerGame ==
    [][WatchdogRuns =>
        {worldState'.events[n].type : n \in NewEvents}
            = TypesOf(checkThresholds(worldState,
                                      OwnCooldowns(worldState)).events)]_vars


-----------------------------------------------------------------------------
(* C27 *)

\* the value an operation computes from the old value, before any clamp
Computed(oldValue, mod) ==
    CASE mod.operation = "set" -> mod.value
      [] mod.operation = "add" -> JsAdd(oldValue, mod.value)
      [] mod.operation = "multiply" -> JsMul(oldValue, mod.value)
      [] OTHER -> Max(mod.min, Min(mod.max, oldValue))

\* a value truncated into the Hard Constraints range of a path of the table
Truncated(path, value) ==
    IF value = NotANumber THEN value
    ELSE IF value < HARD_CONSTRAINTS[path].min THEN HARD_CONSTRAINTS[path].min
    ELSE IF value > HARD_CONSTRAINTS[path].max THEN HARD_CONSTRAINTS[path].max
    ELSE value

\* the value applyModifier is to write: the computed one, truncated when
\* the path is in the table
Result(state, mod) ==
    LET computed == Computed(getByPath(state, mod.variable).value, mod)
    IN  IF mod.variable \in DOMAIN HARD_CONSTRAINTS
        THEN Truncated(mod.variable, computed)
        ELSE computed

ModifierCalled == tickCalls > 0 /\ preTick # NoWorld
KnownOperation(mod) == mod.operation \in {"set", "add", "multiply", "clamp"}

\* C27: applyModifier called with a modifier of one of the four operations
\* rejects it and leaves the state as it was when the path is missing or
\* its leaf is no number, and when the result (the computed value, truncated
\* into the Hard Constraints range if the path is in the table) is not
\* finite; otherwise it applies it and the state is the one before with
\* that result written at the path, which lies within the range of the
\* table.  No modifier is rejected because its computed value was out of
\* the range: a finite computed value on an existing leaf is always applied.
C27_KernelRejectsOrWritesClamped ==
    (ModifierCalled /\ KnownOperation(lastOutcome.mod)) =>
        LET mod == lastOutcome.mod
            old == getByPath(preTick, mod.variable)
            result == Result(preTick, mod)
        IN  /\ ~old.defined =>
                   (~lastOutcome.applied /\ worldState = preTick)
            /\ (old.defined /\ ~IsFinite(result)) =>
                   (~lastOutcome.applied /\ worldState = preTick)
            /\ (old.defined /\ IsFinite(result)) =>
                   /\ lastOutcome.applied
                   /\ lastOutcome.new_value = result
                   /\ worldState = setByPath(preTick, mod.variable, result)
                   /\ getByPath(worldState, mod.variable).value = result
                   /\ mod.variable \in DOMAIN HARD_CONSTRAINTS =>
                          /\ result >= HARD_CONSTRAINTS[mod.variable].min
                          /\ result <= HARD_CONSTRAINTS[mod.variable].max
            /\ (old.defined /\ IsFinite(Computed(old.value, mod))) =>
                   lastOutcome.applied

\* an infinite value set on a path of the table is truncated to the
\* maximum of its range and written
C27_InfinityTruncatedAndWritten ==
    /\ ModifierCalled
    /\ lastOutcome.mod = Mod("economy.tax_rate", "set", Infinity)
    /\ lastOutcome.applied
    /\ worldState.num["economy.tax_rate"] = Fx(100)
    /\ preTick.num["economy.tax_rate"] < Fx(100)


-----------------------------------------------------------------------------
(* C28 *)

\* the first law is in voting when processLawLifecycle of the starting tick
\* reaches it
VotingAtLifecycle ==
    /\ TickStarts
    /\ Len(worldState.laws) > 0
    /\ \/ worldState.laws[1].status = "voting"
       \/ /\ worldState.laws[1].status = "proposed"
          /\ worldState.laws[1].proposed_tick < worldState'.num["meta.tick"]

\* the first law was activated in the starting tick
Activated ==
    /\ worldState'.laws[1].status = "active"
    /\ worldState'.laws[1].activated_tick = worldState'.num["meta.tick"]
    /\ worldState'.num["government.active_law_count"]
            = worldState.num["government.active_law_count"] + Fx(1)

\* C28: a law in voting when processLawLifecycle reaches it becomes active,
\* with activated_tick the current tick and active_law_count one more, if
\* and only if for + against > 0 and for > against; becomes rejected if and
\* only if for + against > 0 and for <= against; and stays voting, nothing
\* else of it changed, if and only if for + against = 0, whatever its
\* abstentions.
C28_VotesDecideTheLaw ==
    [][VotingAtLifecycle =>
        LET votes == worldState'.laws[1].votes
            status == worldState'.laws[1].status
            total == votes.for + votes.against
        IN  /\ Activated <=> (total > 0 /\ votes.for > votes.against)
            /\ status = "active" <=> Activated
            /\ status = "rejected"
                   <=> (total > 0 /\ votes.for <= votes.against)
            /\ status = "voting" <=> total = 0
            /\ status # "active" =>
                   /\ worldState'.laws[1].activated_tick
                          = worldState.laws[1].activated_tick
                   /\ worldState'.num["government.active_law_count"]
                          = worldState.num["government.active_law_count"]]_vars

\* one vote for and one against have rejected the law
C28_TieRejects ==
    /\ tickCalls > 0
    /\ Len(worldState.laws) > 0
    /\ worldState.laws[1].status = "rejected"
    /\ worldState.laws[1].votes.for = Fx(1)
    /\ worldState.laws[1].votes.against = Fx(1)


-----------------------------------------------------------------------------
(* C29 *)

\* the stage a tick is at gives way to this one
StageGoesTo(from, to) == tickRun.pc = from => tickRun'.pc = to

\* C29: in every tick the advisors are invoked in the order analyst,
\* judiciary (once for each law of newLaws), media, reaction, crisis,
\* historian, the watchdog and the event processor running in the step from
\* crisis to historian; whatever a stage does, throwing included, the next
\* one is invoked, and the tick that started ends with the historian's.
C29_StagesRunInOrder ==
    [][/\ TickStarts => tickRun'.pc = "analyst"
       /\ tickRun.pc = "analyst" =>
              /\ tickRun'.pc \in {"judiciary", "media"}
              /\ tickRun'.pc = "judiciary" <=> Len(NewLaws(worldState)) > 0
              /\ tickRun'.newLaws = NewLaws(worldState)
       /\ tickRun.pc = "judiciary" =>
              /\ tickRun'.nextLaw = tickRun.nextLaw + 1
              /\ tickRun'.newLaws = tickRun.newLaws
              /\ tickRun'.pc = IF tickRun.nextLaw < Len(tickRun.newLaws)
                               THEN "judiciary" ELSE "media"
       /\ StageGoesTo("media", "reaction")
       /\ StageGoesTo("reaction", "crisis")
       /\ StageGoesTo("crisis", "historian")
       /\ tickRun.pc = "historian" =>
              (tickRun'.pc = "idle" /\ lastOutcome' = "finalized")]_vars


-----------------------------------------------------------------------------
(* C30 *)

\* C30: every event in state.events has a severity within [1,5]: a crisis
\* advisor output whose severity is outside that range injects nothing.
C30_EventSeverityInRange ==
    \A n \in DOMAIN worldState.events :
        /\ worldState.events[n].severity >= 1
        /\ worldState.events[n].severity <= 5


-----------------------------------------------------------------------------
(* C31 *)

\* the status of event n before and after a step
StatusStep(n) == <<worldState.events[n].status, worldState'.events[n].status>>

NonePending(state) ==
    \A n \in DOMAIN state.events : state.events[n].status # "pending"

\* event n is due to expire in the tick that is running
DueToExpire(n) ==
    /\ worldState.events[n].status = "applied"
    /\ worldState.events[n].expires_tick # NoTick
    /\ worldState.events[n].expires_tick <= worldState.num["meta.tick"]

\* C31: the step of a tick in which the crisis stage and the Event Processor
\* run leaves no event pending, and so no event is pending when a tick
\* ends; the status of an event only changes from pending to applied (its
\* expires_tick then the tick plus its duration_ticks) or rejected, and
\* from applied to expired, the last in the Event Processor of the first
\* tick whose number is at least expires_tick.
C31_EventsResolveAndExpire ==
    [][/\ tickRun.pc = "crisis" => NonePending(worldState')
       /\ (tickRun.pc # "idle" /\ tickRun'.pc = "idle") =>
              NonePending(worldState')
       /\ \A n \in DOMAIN worldState.events :
              /\ n \in DOMAIN worldState'.events
              /\ \/ worldState'.events[n].status = worldState.events[n].status
                 \/ StatusStep(n) \in {<<"pending", "applied">>,
                                       <<"pending", "rejected">>,
                                       <<"applied", "expired">>}
              /\ StatusStep(n) = <<"applied", "expired">> =>
                     (tickRun.pc = "crisis" /\ DueToExpire(n))
              /\ (tickRun.pc = "crisis" /\ DueToExpire(n)) =>
                     worldState'.events[n].status = "expired"
       /\ \A n \in DOMAIN worldState'.events :
              (/\ worldState'.events[n].status = "applied"
               /\ worldState'.events[n].source = "crisis"
               /\ n \notin DOMAIN worldState.events
                      \/ worldState.events[n].status = "pending"
               /\ worldState'.events[n].duration_ticks # 0) =>
                  worldState'.events[n].expires_tick
                      = tickRun.tick + worldState'.events[n].duration_ticks]_vars


-----------------------------------------------------------------------------
(* C32 *)

\* every active law of the world has an interpretation bound
ActiveLawsBound(state) ==
    \A k \in DOMAIN state.laws :
        state.laws[k].status = "active" =>
            ~state.laws[k].judiciary_interpretation.isNull

-----------------------------------------------------------------------------
(* C33 *)

\* the place of a player id in the lexicographic order of the ids
IdRank(id) == CHOOSE n \in 1..Len(PlayerIds) : PlayerIds[n] = id

\* the place of the proposal with this text among what the player had
\* pending when the tick started
Submitted(playerId, text) ==
    LET pending ==
            worldState.players[PlayerIndex(worldState, playerId)]
                .actions_pending
    IN  CHOOSE n \in 1..Len(pending) : pending[n].params.text = text

\* C33: the action phase of a tick takes the players in lexicographic order
\* of their ids and the actions of a player in the order of their
\* submission: of two laws proposed in one tick the one that stands first
\* in state.laws is of the player whose id sorts first or, when both are of
\* one player, the one submitted first.
C33_PlayersActInIdOrder ==
    [][TickStarts =>
        \A i, j \in DOMAIN worldState'.laws :
            (i < j /\ i > Len(worldState.laws)) =>
                LET first == worldState'.laws[i]
                    second == worldState'.laws[j]
                IN  \/ IdRank(first.proposed_by) < IdRank(second.proposed_by)
                    \/ /\ first.proposed_by = second.proposed_by
                       /\ Submitted(first.proposed_by, first.original_text)
                            < Submitted(second.proposed_by,
                                        second.original_text)]_vars


-----------------------------------------------------------------------------
(* C34 *)

\* the game is initialized: a world is stored
Initialized(store) == HasWorld(store.worldState)

\* C34: an alarm that fires on an initialized game starts one call of
\* processTick and the alarm is set again when that call is over: at once
\* when the call throws, whether in its first phases or later, and after
\* the save when it returns.  So while the game is initialized, no tick is
\* running and no save is outstanding, an alarm is set.
C34_AlarmRunsOneTickAndReschedules ==
    [][/\ (alarmTime # NoTick /\ alarmTime' = NoTick) =>
              \/ /\ tickCalls' = tickCalls + 1
                 /\ tickRun.pc = "idle" /\ tickRun'.pc = "analyst"
              \/ /\ ~HasWorld(worldState) /\ ~Initialized(storage)
                 /\ UNCHANGED <<tickCalls, tickRun, worldState>>
       /\ tickCalls' # tickCalls =>
              /\ tickCalls' = tickCalls + 1
              /\ alarmTime # NoTick
              /\ tickRun.pc = "idle"
              /\ \/ tickRun'.pc = "analyst" /\ alarmTime' = NoTick
                 \/ /\ lastOutcome' = "threw" /\ tickRun'.pc = "idle"
                    /\ alarmTime' = nextAlarm(worldState', clock')
       /\ (tickRun.pc # "idle" /\ tickRun'.pc = "idle") =>
              \/ /\ lastOutcome' = "threw"
                 /\ alarmTime' = nextAlarm(worldState', clock')
              \/ /\ lastOutcome' = "finalized"
                 /\ saving'.pending /\ saving'.after = "tick"
       /\ (saving.pending /\ saving.after = "tick" /\ ~saving'.pending) =>
              alarmTime' = nextAlarm(worldState, clock)
       /\ (Initialized(storage') /\ tickRun'.pc = "idle" /\ ~saving'.pending)
              => alarmTime' # NoTick]_vars

\* a tick has thrown and the next alarm is set
C34_AlarmSetAfterThrow ==
    /\ lastOutcome = "threw"
    /\ tickRun.pc = "idle"
    /\ tickCalls > 0
    /\ alarmTime # NoTick
    /\ alarmTime = nextAlarm(worldState, clock)


-----------------------------------------------------------------------------
(* C35 *)

\* the reaction stage of the running tick is answered in this step
ReactionAnswered == tickRun.pc = "reaction" /\ tickRun'.pc = "crisis"

Pressure(state) == state.num["society.protest_pressure"]

\* C35: the reaction stage never lowers society.protest_pressure, which is
\* within [0,1] when the stage is reached: the stage leaves it alone unless
\* the advisor's protest_prob is a number above it, and then sets it to the
\* mean of the two, truncated into [0,1].
C35_ReactionNeverLowersPressure ==
    [][ReactionAnswered =>
        LET current == Pressure(worldState)
            out == tickRun'.aiOutputs.political_reaction
            mean == Frac(current, 1, 2) + Frac(out.protest_prob, 1, 2)
        IN  /\ current >= 0 /\ current <= Fx(1)
            /\ Pressure(worldState') >= current
            /\ IF out.kind = "value" /\ out.protest_prob > current
               THEN Pressure(worldState')
                        = (IF mean > Fx(1) THEN Fx(1)
                           ELSE IF mean < 0 THEN 0 ELSE mean)
               ELSE Pressure(worldState') = current]_vars

\* the advisor's probability was above the pressure and the stage has
\* raised the pressure towards it
C35_PressureRaised ==
    /\ tickRun.pc = "crisis"
    /\ tickRun.aiOutputs.political_reaction.kind = "value"
    /\ tickRun.aiOutputs.political_reaction.protest_prob = 500
    /\ Pressure(worldState) > 200
    /\ Pressure(worldState) < 500


-----------------------------------------------------------------------------
(* C38 *)

\* C38: no two movements in society.movements share an id, whatever
\* create, strengthen and dissolve directives the reaction stages of the
\* ticks so far were given.
C38_MovementIdsUnique ==
    worldState.phase # "null" =>
        \A i, j \in DOMAIN worldState.movements :
            worldState.movements[i].id = worldState.movements[j].id => i = j


-----------------------------------------------------------------------------
(* C39 *)

\* the pending actions of player i of state that are votes of the given
\* kind on law k
BallotsOf(state, i, k, action_type) ==
    {n \in DOMAIN state.players[i].actions_pending :
        LET action == state.players[i].actions_pending[n]
        IN  /\ action.action_type = action_type
            /\ action.params.law_id = state.laws[k].id
            /\ action.params.vote # Null}

\* the citizens of state with at least one pending vote on law k
VotingCitizens(state, k) ==
    {i \in DOMAIN state.players :
        /\ state.players[i].role = "citizen"
        /\ BallotsOf(state, i, k, "vote_law") # {}}

\* the pending votes of the politicians of state on law k
PoliticianBallots(state, k) ==
    UNION {{<<i, n>> : n \in BallotsOf(state, i, k, "vote_law_politician")} :
              i \in {j \in DOMAIN state.players :
                        state.players[j].role = "politician"}}

TallyTotal(votes) == votes.for + votes.against + votes.abstain

\* C39: the vote_law actions a citizen has pending for one law change that
\* law's tallies by at most one vote in total in the tick that takes them:
\* what the tick adds to the tallies of a law in voting, the weighted votes
\* of the politicians apart, is at most one vote for each citizen voting.
C39_OneVotePerCitizenPerTick ==
    [][TickStarts =>
        \A k \in DOMAIN worldState.laws :
            worldState.laws[k].status = "voting" =>
                TallyTotal(worldState'.laws[k].votes)
                    - TallyTotal(worldState.laws[k].votes)
                    - Fx(3) * Cardinality(PoliticianBallots(worldState, k))
                  <= Fx(1) * Cardinality(VotingCitizens(worldState, k))]_vars


-----------------------------------------------------------------------------
(* C37 *)

\* the laws of state whose status is active
ActiveLaws(state) ==
    {k \in DOMAIN state.laws : state.laws[k].status = "active"}

\* C37: after every tick government.active_law_count equals the number of
\* laws whose status is active.
C37_ActiveLawCountIsTheNumberActive ==
    lastOutcome = "finalized" =>
        worldState.num["government.active_law_count"]
            = Fx(Cardinality(ActiveLaws(worldState)))


-----------------------------------------------------------------------------
(* C36 *)

\* the step in which the historian's answer is taken and the tick finalized
HistorianAnswered == tickRun.pc = "historian" /\ tickRun'.pc = "idle"

\* what PHASE 7, which the same step runs, writes
FinalizeFields == {"num", "phase", "tick_deadline", "tick_log"}
FinalizePaths == {"meta.tick", "meta.seed"}

\* the eras of state with tick_end null
OpenEras(state) ==
    {n \in DOMAIN state.history.eras :
        state.history.eras[n].tick_end = NoTick}

OneOpenEra(state) == OpenEras(state) = {Len(state.history.eras)}

\* C36: the historian stage changes nothing outside state.history; after it
\* history.eras still has exactly one open era, the last one; and a new era
\* is opened at the current tick behind the eras there were, of which the
\* last has got the current tick as its tick_end and the others are as they
\* were.
C36_HistorianWritesHistoryOnly ==
    [][HistorianAnswered =>
        LET eras == worldState.history.eras
            after == worldState'.history.eras
            tick == tickRun.tick
        IN  /\ \A f \in DOMAIN worldState \ (FinalizeFields \cup {"history"}) :
                    worldState'[f] = worldState[f]
            /\ \A path \in DOMAIN worldState.num \ FinalizePaths :
                    worldState'.num[path] = worldState.num[path]
            /\ OneOpenEra(worldState) => OneOpenEra(worldState')
            /\ Len(after) = Len(eras) => after = eras
            /\ Len(after) # Len(eras) =>
                    /\ Len(after) = Len(eras) + 1
                    /\ after[Len(after)].tick_start = tick
                    /\ after[Len(after)].tick_end = NoTick
                    /\ after[Len(eras)] =
                            [eras[Len(eras)] EXCEPT !.tick_end = tick]
                    /\ \A n \in 1..(Len(eras) - 1) : after[n] = eras[n]]_vars

\* two eras have been closed, each at the tick that opened the next, and
\* the third is open
C36_TwoErasClosed ==
    /\ lastOutcome = "finalized"
    /\ Len(worldState.history.eras) = 3
    /\ worldState.history.eras[1].tick_end = worldState.history.eras[2].tick_start
    /\ worldState.history.eras[2].tick_end = worldState.history.eras[3].tick_start
    /\ OpenEras(worldState) = {3}

=============================================================================
